---- MODULE Spec2Model ----
(***************************************************************************)
(* Guardian Angel (CTG monitoring backend): the archive outbox             *)
(* (api.py: end_session, archive_sender_worker, retry_archive_send,        *)
(* clear_sent_archives), the sample buffer (db_manager.py: DBManager) and  *)
(* the ingestion filter (api.py: EmulatorClient.process_data).             *)
(***************************************************************************)
EXTENDS Integers, Sequences, FiniteSets, TLC

\* ------------------------------------------------------------------------
\* Bounds of the model
\* ------------------------------------------------------------------------
\* number of end_session calls that write an archive
MaxArchives == 2
\* the wall clock takes the millisecond values 0..MaxClock
MaxClock == 1
\* number of samples the telemetry source delivers
MaxSamples == 4
\* how often the writer's timer flusher fires
MaxTimerFlushes == 2
\* number of telemetry records of arbitrary content
MaxRecords == 2

\* size threshold of the in-memory batch (DBManager's max_buffer, 50 in the
\* program), scaled down
max_buffer == 3

\* ------------------------------------------------------------------------
\* Program constants
\* ------------------------------------------------------------------------
\* status codes the worker accepts as delivered (api.py:626)
SuccessCodes == {200, 201, 202}
\* status codes the destination is modelled to answer with
StatusCodes == {200, 201, 202, 204, 503}
\* ways in which client.post can raise (api.py:646-652)
PostErrors == {"ConnectError", "TimeoutException", "Exception"}

\* session ids in their string order ("default" < "session_<seconds>")
SessionIds == <<"default", "session_0">>
Sessions == {SessionIds[i] : i \in 1..Len(SessionIds)}
SessionRank(s) == CHOOSE i \in 1..Len(SessionIds) : SessionIds[i] = s

\* request.archive_server_url is a required string: a URL or the empty string
RequestUrls == {"url", "empty"}
\* what a file in the queue directory can hold: an archive whose metadata
\* carries a URL, an empty URL, no URL field, no metadata section, or text
\* that is not JSON (a write that failed half way)
DocKinds == {"url", "empty", "absent", "nometa", "corrupt"}

VARIABLES
    now,                \* time.time() in milliseconds
    current_session_id, \* emulator_client.current_session_id
    patient_clinical_data, \* keys of the clinical-data dictionary
    log,                \* rows of table ctg_data in insertion (id) order
    buffer,             \* emulator_client.db.buffer: the in-memory batch
    pending,            \* archives_to_send/*.json        : name -> document
    sent,               \* archives_to_send/sent/*.json   : name -> document
    errors,             \* archives_to_send/errors/*.json : name -> document
    wpc,                \* where archive_sender_worker stands
    wlist,              \* archive_files still to visit in this cycle
    wcur,               \* archive_path of the entry being sent
    wdoc,               \* archive_data read from it
    wbody,              \* send_data, the body of the POST
    wstatus,            \* outcome of the POST that has just returned
    notified,           \* number of archive_sent broadcasts
    retried,            \* names of the entries a POST has failed for
    enqueued,           \* ids of the archives written by end_session
    cleared,            \* ids of the archives removed by clear-sent
    nextId,             \* id of the next archive
    endResponse,        \* response of the last end_session call
    alwaysOk,           \* the destination has recovered for good
    lock,               \* emulator_client.db.lock: "free" or the holding thread
    tpc,                \* where the add() thread and the flusher thread stand
    to_write,           \* data_to_write of each thread inside _flush
    inserted,           \* rows executemany has inserted in each thread's open transaction
    ipc,                \* where process_data stands
    addArg,             \* the row handed to db.add
    data_counter,       \* emulator_client.data_counter
    accepted,           \* rows appended to the batch so far
    forwarded,          \* ctg_data broadcasts so far
    lastRecord,         \* the record process_data was called with last
    timerFlushes,       \* how often the flusher's sleep has ended
    call,               \* the function applied to arguments: name and arguments
    ret,                \* what that call returned
    frame,              \* the local variables of the call while its loop runs
    model_available,    \* prediction_service.model_available
    last_analysis_result, \* prediction_service.last_analysis_result
    analysis_results,   \* rows of table analysis_results in insertion order
    active_connections, \* manager.active_connections: the subscribed websockets
    accepted_sockets,   \* number of websockets accepted so far (they are numbered)
    analysis_history,   \* prediction_service.analysis_history
    analyze_pc,         \* where each caller of analyze() stands
    events,             \* what the last analysis pass has broadcast, in order
    running,            \* emulator_client.running
    cpc,                \* where EmulatorClient.run stands
    linebuf,            \* the complete lines of run's buffer, not yet handled
    connected           \* emulator_client.reader and writer are set

dirVars == <<pending, sent, errors>>
workerVars == <<wpc, wlist, wcur, wdoc, wbody, wstatus, notified, retried>>
archiveVars == <<enqueued, cleared, nextId, endResponse>>
sessionVars == <<current_session_id, patient_clinical_data>>
threadVars == <<lock, tpc, to_write, inserted>>
ingestVars == <<ipc, addArg, data_counter, accepted, forwarded, lastRecord>>
scoringVars == <<call, ret, frame, model_available, last_analysis_result,
                 analysis_results, events, active_connections, accepted_sockets,
                 analysis_history, analyze_pc>>
clientVars == <<running, cpc, linebuf, connected>>
vars == <<now, alwaysOk, dirVars, workerVars, archiveVars, sessionVars,
          log, buffer, threadVars, ingestVars, timerFlushes, scoringVars, clientVars>>

\* ------------------------------------------------------------------------
\* Files and directories
\* ------------------------------------------------------------------------
\* archive_{session_id}_{timestamp}.json
ArchiveName(s, t) == <<s, t>>
Names == {ArchiveName(s, t) : s \in Sessions, t \in 0..MaxClock}
NoName == <<"", 0>>
NoDoc == [id |-> -1, kind |-> "none", session_id |-> "", ctg_records |-> <<>>]

EmptyDir == [n \in {} |-> NoDoc]
\* open(path, 'w') / os.rename(src, path): creates or replaces the file
WriteFile(dir, n, d) == [x \in (DOMAIN dir) \cup {n} |-> IF x = n THEN d ELSE dir[x]]
\* os.rename(path, elsewhere) / os.remove(path): the file leaves the directory
RemoveFile(dir, n) == [x \in (DOMAIN dir) \ {n} |-> dir[x]]
DocIds(dir) == {dir[n].id : n \in DOMAIN dir}

\* string order of two archive file names
NameLess(a, b) ==
    \/ SessionRank(a[1]) < SessionRank(b[1])
    \/ a[1] = b[1] /\ a[2] < b[2]

\* sorted(glob.glob(os.path.join(ARCHIVES_QUEUE_DIR, "*.json")))
RECURSIVE SortedNames(_)
SortedNames(S) ==
    IF S = {} THEN <<>>
    ELSE LET m == CHOOSE x \in S : \A y \in S \ {x} : NameLess(x, y)
         IN <<m>> \o SortedNames(S \ {m})

\* a test for None instead of a truth test: the empty URL counts as a destination
HasServerUrlNotNone(d) == d.kind \in {"url", "empty"}
\* archive_data.get('metadata', {}).get('archive_server_url'), as a truth value
HasServerUrl(d) == d.kind = "url"

\* db.get(limit): the newest rows first (ORDER BY id DESC LIMIT ?)
Get(limit) ==
    LET n == IF Len(log) <= limit THEN Len(log) ELSE limit
    IN  [i \in 1..n |-> log[Len(log) + 1 - i]]
MaxSize == 1000

\* ------------------------------------------------------------------------
\* Values of the telemetry fields
\* ------------------------------------------------------------------------
\* a Python float: the finite value num/den, nan, inf or -inf
Fin(num, den) == [cls |-> "fin", num |-> num, den |-> den]
NaN == [cls |-> "nan", num |-> 0, den |-> 1]
PosInf == [cls |-> "inf", num |-> 0, den |-> 1]
NegInf == [cls |-> "ninf", num |-> 0, den |-> 1]
\* Python's None
None == [cls |-> "none", num |-> 0, den |-> 1]
\* x < c and x > c for a float x and an integer c; false when x is nan
FloatLt(x, c) == \/ x.cls = "ninf"
                 \/ x.cls = "fin" /\ x.num < c * x.den
FloatGt(x, c) == \/ x.cls = "inf"
                 \/ x.cls = "fin" /\ x.num > c * x.den
\* a row of ctg_data as db.add receives it; data_point is the value of
\* data_counter when the record was processed
Row(data_point, bpm, uterus) ==
    [data_point |-> data_point, bpm_value |-> bpm, uterus_value |-> uterus]
Range(q) == {q[i] : i \in 1..Len(q)}

\* ------------------------------------------------------------------------
\* safe_float_convert
\* ------------------------------------------------------------------------
Digits == <<"0", "1", "2", "3", "4", "5", "6", "7", "8", "9">>
IsDigit(c) == \E i \in 1..10 : Digits[i] = c
DigitValue(c) == (CHOOSE i \in 1..10 : Digits[i] = c) - 1
IsSpace(c) == c = " "
\* str.lower() on the letters of the words float() knows
Lower(c) == CASE c = "N" -> "n" [] c = "A" -> "a" [] c = "I" -> "i" [] c = "F" -> "f"
              [] c = "T" -> "t" [] c = "Y" -> "y" [] OTHER -> c
RECURSIVE LStrip(_)
LStrip(cs) == IF cs # <<>> /\ IsSpace(Head(cs)) THEN LStrip(Tail(cs)) ELSE cs
RECURSIVE RStrip(_)
RStrip(cs) == IF cs # <<>> /\ IsSpace(cs[Len(cs)]) THEN RStrip(SubSeq(cs, 1, Len(cs) - 1)) ELSE cs
\* value.strip()
Strip(cs) == RStrip(LStrip(cs))
\* .replace(',', '.')
ReplaceComma(cs) == [i \in 1..Len(cs) |-> IF cs[i] = "," THEN "." ELSE cs[i]]
RECURSIVE DigitsValue(_)
DigitsValue(cs) == IF cs = <<>> THEN 0
                   ELSE 10 * DigitsValue(SubSeq(cs, 1, Len(cs) - 1)) + DigitValue(cs[Len(cs)])
RECURSIVE Pow10(_)
Pow10(k) == IF k = 0 THEN 1 ELSE 10 * Pow10(k - 1)
AllDigits(cs) == \A i \in 1..Len(cs) : IsDigit(cs[i])
\* float(str) for strings over digits, sign, point, blanks and letters (no
\* exponent, no underscore): a ValueError is rendered as None
PyFloat(str) ==
    LET body == Strip(str)
        signed == body # <<>> /\ Head(body) \in {"+", "-"}
        neg == body # <<>> /\ Head(body) = "-"
        mag == IF signed THEN Tail(body) ELSE body
        word == [i \in 1..Len(mag) |-> Lower(mag[i])]
        dots == {i \in 1..Len(mag) : mag[i] = "."}
        dot == IF dots = {} THEN Len(mag) + 1 ELSE CHOOSE i \in dots : \A j \in dots : i <= j
        ip == SubSeq(mag, 1, dot - 1)
        fp == SubSeq(mag, dot + 1, Len(mag))
    IN  IF word = <<"n", "a", "n">> THEN NaN
        ELSE IF word = <<"i", "n", "f">> \/ word = <<"i", "n", "f", "i", "n", "i", "t", "y">>
        THEN (IF neg THEN NegInf ELSE PosInf)
        ELSE IF AllDigits(ip) /\ AllDigits(fp) /\ Len(ip) + Len(fp) > 0
        THEN Fin((IF neg THEN -1 ELSE 1) * DigitsValue(ip \o fp), Pow10(Len(fp)))
        ELSE None

\* a JSON value: a number (json.loads also reads NaN and Infinity), a string,
\* true/false, or null
JsonNumber(x) == [type |-> "number", num |-> x, str |-> <<>>]
JsonString(cs) == [type |-> "string", num |-> None, str |-> cs]
JsonBool(b) == [type |-> "bool", num |-> Fin(IF b THEN 1 ELSE 0, 1), str |-> <<>>]
JsonNull == [type |-> "null", num |-> None, str |-> <<>>]

safe_float_convert(value) ==
    IF value.type \in {"number", "bool"} THEN value.num
    ELSE IF value.type = "string" THEN PyFloat(ReplaceComma(Strip(value.str)))
    ELSE None

\* ------------------------------------------------------------------------
\* end_session (POST /session/end)
\* ------------------------------------------------------------------------
\* class DBManager defines add, get, get_conn, _flush, _flusher and stop only
DBManagerMethods == {"add", "get", "get_conn", "_flush", "_flusher", "stop"}

\* f"session_{int(time.time())}"
NewSessionId(t) == SessionIds[2 + (t \div 1000)]

\* requests are served until the shutdown part of lifespan has run, which
\* cancels the worker
Serving == wpc # "cancelled"

\* the sample log after json.dump has raised, if the cleanup of step 4 ran in
\* a finally clause
LogAfterFailedWriteCleared(rows) == <<>>
\* json.dump raises inside the try block: steps 4 and 5 are passed over and
\* the handler answers HTTP 500
LogAfterFailedWrite(rows) == rows

EndSession(url, writeOk) ==
    LET session_id == current_session_id
        all_ctg_records == Get(MaxSize)
        archive_payload == [id |-> nextId, kind |-> url, session_id |-> session_id,
                            ctg_records |-> all_ctg_records]
        archive_filename == ArchiveName(session_id, now)
    IN
    /\ Serving
    /\ nextId <= MaxArchives
    /\ IF all_ctg_records = <<>>
       THEN /\ endResponse' = "no_data"
            /\ UNCHANGED <<dirVars, enqueued, nextId, log, sessionVars, data_counter>>
       ELSE IF ~writeOk
       THEN \* json.dump fails after open(archive_path, 'w') created the file
            /\ pending' = WriteFile(pending, archive_filename,
                             [archive_payload EXCEPT !.id = 0, !.kind = "corrupt",
                                                     !.ctg_records = <<>>])
            /\ endResponse' = "error"
            /\ log' = LogAfterFailedWrite(log)
            /\ UNCHANGED <<sent, errors, enqueued, nextId, sessionVars, data_counter>>
       ELSE /\ pending' = WriteFile(pending, archive_filename, archive_payload)
            /\ enqueued' = enqueued \cup {nextId}
            /\ nextId' = nextId + 1
            /\ UNCHANGED <<sent, errors>>
            /\ IF "clear_data" \in DBManagerMethods
               THEN /\ log' = <<>>
                    /\ data_counter' = 0
                    /\ current_session_id' = NewSessionId(now)
                    /\ patient_clinical_data' =
                          (patient_clinical_data \ {session_id}) \cup {NewSessionId(now)}
                    /\ endResponse' = "success"
               ELSE \* db.clear_data() raises AttributeError: HTTP 500
                    /\ endResponse' = "error"
                    /\ UNCHANGED <<log, sessionVars, data_counter>>
    /\ UNCHANGED <<now, alwaysOk, workerVars, cleared, buffer, threadVars,
                   ipc, addArg, accepted, forwarded, lastRecord, timerFlushes, scoringVars, clientVars>>

\* the wall clock advances by a millisecond
Tick ==
    /\ now < MaxClock
    /\ now' = now + 1
    /\ UNCHANGED <<alwaysOk, dirVars, workerVars, archiveVars, sessionVars,
                   log, buffer, threadVars, ingestVars, timerFlushes, scoringVars, clientVars>>

\* websocket command "session:<id>"
SwitchSession(new_session) ==
    /\ new_session # current_session_id
    /\ current_session_id' = new_session
    /\ UNCHANGED <<now, alwaysOk, dirVars, workerVars, archiveVars,
                   patient_clinical_data, log, buffer, threadVars, ingestVars,
                   timerFlushes, scoringVars, clientVars>>

\* ------------------------------------------------------------------------
\* archive_sender_worker
\* ------------------------------------------------------------------------
Status(c) == [kind |-> "status", code |-> c]
Raised(e) == [kind |-> e, code |-> 0]
NoStatus == [kind |-> "none", code |-> 0]
PostOutcomes == {Status(c) : c \in StatusCodes} \cup {Raised(e) : e \in PostErrors}
\* only 200 counts as delivered
IsSuccessOnly200(o) == o.kind = "status" /\ o.code = 200
IsSuccess(o) == o.kind = "status" /\ o.code \in SuccessCodes

\* the loop with unreadable entries quarantined like entries without destination
RECURSIVE AdvanceQuarantinesUnreadable(_, _, _)
AdvanceQuarantinesUnreadable(files, p, e) ==
    IF files = <<>>
    THEN [pc |-> "sleep", files |-> <<>>, cur |-> NoName, doc |-> NoDoc, p |-> p, e |-> e]
    ELSE LET archive_path == Head(files) IN
         IF archive_path \notin DOMAIN p
         THEN [pc |-> "pause", files |-> Tail(files), cur |-> NoName, doc |-> NoDoc,
               p |-> p, e |-> e]
         ELSE IF ~HasServerUrl(p[archive_path])
         THEN AdvanceQuarantinesUnreadable(Tail(files), RemoveFile(p, archive_path),
                      WriteFile(e, archive_path, p[archive_path]))
         ELSE [pc |-> "post", files |-> Tail(files), cur |-> archive_path,
               doc |-> p[archive_path], p |-> p, e |-> e]

\* an exception in the body of the for loop, if it reached the except clause
\* of the while loop: the rest of the list waits for the next cycle
EntryFailedEndsCycle(files, p, e) ==
    [pc |-> "sleep", files |-> <<>>, cur |-> NoName, doc |-> NoDoc, p |-> p, e |-> e]
\* open or json.load raises for the first entry of files: the except clause
\* of the for body logs it, the entry stays where it is, and the 2 s pause
\* follows before the next entry
EntryFailed(files, p, e) ==
    [pc |-> "pause", files |-> Tail(files), cur |-> NoName, doc |-> NoDoc, p |-> p, e |-> e]

\* The for loop over archive_files up to its next await: entries without a
\* destination are renamed into errors/ and the loop continues at once; an
\* entry that cannot be read ends in the except branch and the 2 s pause; an
\* entry with a destination is POSTed.
RECURSIVE Advance(_, _, _)
Advance(files, p, e) ==
    IF files = <<>>
    THEN [pc |-> "sleep", files |-> <<>>, cur |-> NoName, doc |-> NoDoc, p |-> p, e |-> e]
    ELSE LET archive_path == Head(files) IN
         IF archive_path \notin DOMAIN p \/ p[archive_path].kind = "corrupt"
         THEN EntryFailed(files, p, e)
         ELSE IF ~HasServerUrl(p[archive_path])
         THEN Advance(Tail(files), RemoveFile(p, archive_path),
                      WriteFile(e, archive_path, p[archive_path]))
         ELSE [pc |-> "post", files |-> Tail(files), cur |-> archive_path,
               doc |-> p[archive_path], p |-> p, e |-> e]

\* the body of the POST if the document were sent as it is stored
SendDataWithUrl(archive_data) == archive_data
\* send_data: the copy of archive_data whose metadata has lost the field
\* archive_server_url. The copy is shallow, so the metadata of archive_data
\* in memory loses the field as well; the file is not written again, and
\* only session_id is read from archive_data afterwards.
send_data(archive_data) ==
    IF archive_data.kind \in {"url", "empty"}
    THEN [archive_data EXCEPT !.kind = "absent"]
    ELSE archive_data

\* the response of the entry before is out of use once the loop goes on
WorkerGoto(r) ==
    /\ wpc' = r.pc
    /\ wstatus' = NoStatus
    /\ retried' = retried \cap DOMAIN r.p
    /\ wlist' = r.files
    /\ wcur' = r.cur
    /\ wdoc' = r.doc
    /\ wbody' = IF r.pc = "post" THEN send_data(r.doc) ELSE NoDoc
    /\ pending' = r.p
    /\ errors' = r.e

\* the sleep between two cycles ends: list the queue and start on it
WorkerCycle ==
    /\ wpc = "sleep"
    /\ WorkerGoto(Advance(SortedNames(DOMAIN pending), pending, errors))
    /\ UNCHANGED <<now, alwaysOk, sent, notified, archiveVars, sessionVars,
                   log, buffer, threadVars, ingestVars, timerFlushes, scoringVars, clientVars>>

\* client.post returns or raises, with the broadcast placed after the if/else
WorkerPostAlwaysNotifies(outcome) ==
    /\ wpc = "post"
    /\ alwaysOk => IsSuccess(outcome)
    /\ wstatus' = outcome
    /\ wpc' = "pause"
    /\ notified' = notified + 1
    /\ IF IsSuccess(outcome) /\ wcur \in DOMAIN pending
       THEN /\ sent' = WriteFile(sent, wcur, pending[wcur])
            /\ pending' = RemoveFile(pending, wcur)
            /\ UNCHANGED retried
       ELSE /\ retried' = IF IsSuccess(outcome) THEN retried ELSE retried \cup {wcur}
            /\ UNCHANGED <<pending, sent>>
    /\ UNCHANGED <<now, alwaysOk, errors, wlist, wcur, wdoc, wbody, archiveVars, sessionVars,
                   log, buffer, threadVars, ingestVars, timerFlushes, scoringVars, clientVars>>

\* client.post returns or raises
WorkerPost(outcome) ==
    /\ wpc = "post"
    /\ alwaysOk => IsSuccess(outcome)
    /\ wstatus' = outcome
    /\ wpc' = "pause"
    /\ IF IsSuccess(outcome) /\ wcur \in DOMAIN pending
       THEN /\ sent' = WriteFile(sent, wcur, pending[wcur])
            /\ pending' = RemoveFile(pending, wcur)
            /\ notified' = notified + 1
            /\ UNCHANGED retried
       ELSE /\ retried' = IF IsSuccess(outcome) THEN retried ELSE retried \cup {wcur}
            /\ UNCHANGED <<pending, sent, notified>>
    /\ UNCHANGED <<now, alwaysOk, errors, wlist, wcur, wdoc, wbody, archiveVars, sessionVars,
                   log, buffer, threadVars, ingestVars, timerFlushes, scoringVars, clientVars>>

\* the 2 s pause after an entry ends: go on with the rest of the list
WorkerPause ==
    /\ wpc = "pause"
    /\ WorkerGoto(Advance(wlist, pending, errors))
    /\ UNCHANGED <<now, alwaysOk, sent, notified, archiveVars, sessionVars,
                   log, buffer, threadVars, ingestVars, timerFlushes, scoringVars, clientVars>>

\* lifespan shutdown: archive_sender_task.cancel() takes effect at an await
WorkerCancel ==
    /\ wpc \in {"sleep", "post", "pause"}
    /\ wpc' = "cancelled"
    /\ UNCHANGED <<now, alwaysOk, dirVars, wlist, wcur, wdoc, wbody, wstatus, notified,
                   retried, archiveVars, sessionVars, log, buffer, threadVars, ingestVars,
                   timerFlushes, scoringVars, clientVars>>

\* from now on the destination answers every POST with a success status
Recover ==
    /\ ~alwaysOk
    /\ alwaysOk' = TRUE
    /\ UNCHANGED <<now, dirVars, workerVars, archiveVars, sessionVars,
                   log, buffer, threadVars, ingestVars, timerFlushes, scoringVars, clientVars>>

\* ------------------------------------------------------------------------
\* POST /archives/retry/{filename} and DELETE /archives/clear-sent
\* ------------------------------------------------------------------------
RetryArchiveSend(filename) ==
    /\ Serving
    /\ filename \in DOMAIN errors
    /\ pending' = WriteFile(pending, filename, errors[filename])
    /\ errors' = RemoveFile(errors, filename)
    /\ UNCHANGED <<now, alwaysOk, sent, workerVars, archiveVars, sessionVars,
                   log, buffer, threadVars, ingestVars, timerFlushes, scoringVars, clientVars>>

ClearSentArchives ==
    /\ Serving
    /\ DOMAIN sent # {}
    /\ sent' = EmptyDir
    /\ cleared' = cleared \cup DocIds(sent)
    /\ UNCHANGED <<now, alwaysOk, pending, errors, workerVars, enqueued, nextId,
                   endResponse, sessionVars, log, buffer, threadVars, ingestVars,
                   timerFlushes, scoringVars, clientVars>>

\* ------------------------------------------------------------------------
\* EmulatorClient.process_data and DBManager (add, _flush, _flusher)
\* ------------------------------------------------------------------------
\* a decoded telemetry record: its shape and the two raw values bpm[1], uterus[1]
Record(shape, bpm, uterus) == [shape |-> shape, bpm |-> bpm, uterus |-> uterus]
NoRecord == Record("none", JsonNull, JsonNull)
\* not a dict, a field missing, or a field that is not a list of two elements
Shapes == {"ok", "notdict", "nobpm", "nouterus", "bpmshort", "uterusshort"}

\* the checks of process_data up to the range validation
Accepts(data) ==
    LET bpm_value == safe_float_convert(data.bpm)
        uterus_value == safe_float_convert(data.uterus)
    IN  /\ data.shape = "ok"
        /\ bpm_value # None /\ uterus_value # None
        /\ ~(FloatLt(bpm_value, 50) \/ FloatGt(bpm_value, 201))
        /\ ~(FloatLt(uterus_value, 0) \/ FloatGt(uterus_value, 120))

\* process_data up to the call of db.add in a worker thread
ProcessData(data) ==
    /\ ipc = "idle"
    /\ data_counter' = data_counter + 1
    /\ lastRecord' = data
    /\ IF Accepts(data)
       THEN /\ ipc' = "add"
            /\ addArg' = Row(data_counter + 1, safe_float_convert(data.bpm),
                             safe_float_convert(data.uterus))
       ELSE UNCHANGED <<ipc, addArg>>
    /\ UNCHANGED <<now, alwaysOk, dirVars, workerVars, archiveVars, sessionVars,
                   log, buffer, threadVars, accepted, forwarded, timerFlushes, scoringVars>>

\* DBManager.add: take the lock, append, and at the size threshold call _flush
\* with the lock still held; otherwise leave the with block and return
AddCall ==
    /\ ipc = "add" /\ tpc["add"] = "idle"
    /\ lock = "free"
    /\ buffer' = Append(buffer, addArg)
    /\ accepted' = accepted \cup {addArg.data_point}
    /\ IF Len(buffer') >= max_buffer
       THEN /\ lock' = "add"
            /\ tpc' = [tpc EXCEPT !["add"] = "flush"]
            /\ UNCHANGED ipc
       ELSE /\ ipc' = "bcast"
            /\ UNCHANGED <<lock, tpc>>
    /\ UNCHANGED <<now, alwaysOk, dirVars, workerVars, archiveVars, sessionVars,
                   log, to_write, inserted, addArg, data_counter, forwarded, lastRecord,
                   timerFlushes, scoringVars, clientVars>>

\* process_data after db.add has returned: the ctg_data broadcast
BroadcastCtgData ==
    /\ ipc = "bcast"
    /\ forwarded' = forwarded + 1
    /\ ipc' = "idle"
    /\ UNCHANGED <<now, alwaysOk, dirVars, workerVars, archiveVars, sessionVars,
                   log, buffer, threadVars, addArg, data_counter, accepted,
                   lastRecord, timerFlushes, scoringVars, clientVars>>

\* DBManager._flusher: time.sleep(flush_interval_seconds) ends
TimerFire ==
    /\ tpc["timer"] = "idle"
    /\ timerFlushes < MaxTimerFlushes
    /\ timerFlushes' = timerFlushes + 1
    /\ tpc' = [tpc EXCEPT !["timer"] = "flush"]
    /\ UNCHANGED <<now, alwaysOk, dirVars, workerVars, archiveVars, sessionVars,
                   log, buffer, lock, to_write, inserted, ingestVars, scoringVars,
                   clientVars>>

\* what the thread does when _flush returns: add leaves its with block and
\* returns to process_data, the flusher goes back to sleep
FlushReturns(t) ==
    IF t = "add"
    THEN /\ lock' = "free"
         /\ ipc' = "bcast"
    ELSE UNCHANGED <<lock, ipc>>

\* DBManager._flush, the with block: it needs the lock, which threading.Lock
\* gives to no thread while any thread holds it
FlushLocked(t) ==
    /\ tpc[t] = "flush"
    /\ lock = "free"
    /\ IF buffer = <<>>
       THEN /\ tpc' = [tpc EXCEPT ![t] = "idle"]
            /\ FlushReturns(t)
            /\ UNCHANGED <<buffer, to_write>>
       ELSE /\ to_write' = [to_write EXCEPT ![t] = buffer]
            /\ buffer' = <<>>
            /\ tpc' = [tpc EXCEPT ![t] = "write"]
            /\ UNCHANGED <<lock, ipc>>
    /\ UNCHANGED <<now, alwaysOk, dirVars, workerVars, archiveVars, sessionVars,
                   log, inserted, addArg, data_counter, accepted, forwarded, lastRecord,
                   timerFlushes, scoringVars, clientVars>>

\* a REAL column stores nan as NULL
Null == [cls |-> "null", num |-> 0, den |-> 1]
SqlReal(x) == IF x.cls = "nan" THEN Null ELSE x
SqlRows(rows) ==
    [i \in 1..Len(rows) |-> [rows[i] EXCEPT !.bpm_value = SqlReal(@),
                                            !.uterus_value = SqlReal(@)]]

\* what the connections of other threads see of the k-th row of an
\* executemany before commit, if every INSERT were committed on its own
VisibleBeforeCommitAutocommit(rows, k) == <<rows[k]>>
\* sqlite3.connect in its default isolation level opens a transaction before
\* the first INSERT: nothing of it is visible to another connection
VisibleBeforeCommit(rows, k) == <<>>

\* DBManager._flush, one more row of executemany
FlushInsert(t) ==
    /\ tpc[t] = "write"
    /\ inserted[t] < Len(to_write[t])
    /\ inserted' = [inserted EXCEPT ![t] = @ + 1]
    /\ log' = log \o VisibleBeforeCommit(SqlRows(to_write[t]), inserted[t] + 1)
    /\ UNCHANGED <<now, alwaysOk, dirVars, workerVars, archiveVars, sessionVars,
                   buffer, lock, tpc, to_write, ingestVars, timerFlushes, scoringVars,
                   clientVars>>

\* DBManager._flush, the rest of executemany and commit: the rows reach the
\* table, or sqlite raises, conn.close() rolls the transaction back and the
\* exception leaves _flush (and ends the flusher thread)
FlushWrite(t, ok) ==
    /\ tpc[t] = "write"
    /\ to_write' = [to_write EXCEPT ![t] = <<>>]
    /\ inserted' = [inserted EXCEPT ![t] = 0]
    /\ IF ok
       THEN /\ log' = log \o SqlRows(to_write[t])
            /\ tpc' = [tpc EXCEPT ![t] = "idle"]
            /\ FlushReturns(t)
       ELSE /\ tpc' = [tpc EXCEPT ![t] = IF t = "timer" THEN "dead" ELSE "idle"]
            /\ IF t = "add" THEN lock' = "free" /\ ipc' = "idle" ELSE UNCHANGED <<lock, ipc>>
            /\ UNCHANGED log
    /\ UNCHANGED <<now, alwaysOk, dirVars, workerVars, archiveVars, sessionVars,
                   buffer, addArg, data_counter, accepted, forwarded, lastRecord,
                   timerFlushes, scoringVars, clientVars>>

\* ------------------------------------------------------------------------
\* The scoring engine and the ingestion client before they are used
\* ------------------------------------------------------------------------
NoCall == [fn |-> "none", args |-> <<>>]
NoRet == [done |-> FALSE, val |-> <<>>]
NoFrame == [pc |-> "none"]
\* a dictionary without keys
EmptyDict == [k \in {} |-> 0]
\* the callers of prediction_service.analyze: the ingestion path and the
\* handler of an API request
AnalyzeCallers == {"ingest", "api"}

\* d.get(key, default)
DictGet(d, key, default) == IF key \in DOMAIN d THEN d[key] ELSE default

\* PredictionService.__init__ without a model file; no pass has run
ScoringIdle ==
    /\ call = NoCall
    /\ ret = NoRet
    /\ frame = NoFrame
    /\ model_available = FALSE
    /\ last_analysis_result = EmptyDict
    /\ analysis_results = <<>>
    /\ active_connections = <<>>
    /\ accepted_sockets = 0
    /\ analysis_history = <<>>
    /\ analyze_pc = [t \in AnalyzeCallers |-> "idle"]
    /\ events = <<>>

\* EmulatorClient.__init__: run() has not been started
ClientIdle ==
    /\ running = FALSE
    /\ cpc = "init"
    /\ linebuf = <<>>
    /\ connected = FALSE

\* ------------------------------------------------------------------------
\* The outbox with a sample log that holds one flushed row
\* ------------------------------------------------------------------------
\* a file an earlier run left in the queue directory, from another session;
\* end_session itself always writes a metadata section with the URL field
LeftOverKinds == {"absent", "nometa"}
LeftOver(k) == [id |-> 0, kind |-> k, session_id |-> "session_0", ctg_records |-> <<>>]

InitCommon ==
    /\ now = 0
    /\ alwaysOk = FALSE
    /\ current_session_id = "default"
    /\ patient_clinical_data = {"default"}
    /\ sent = EmptyDir
    /\ errors = EmptyDir
    /\ wpc = "sleep"
    /\ wlist = <<>>
    /\ wcur = NoName
    /\ wdoc = NoDoc
    /\ wbody = NoDoc
    /\ wstatus = NoStatus
    /\ notified = 0
    /\ retried = {}
    /\ enqueued = {}
    /\ cleared = {}
    /\ nextId = 1
    /\ endResponse = "none"
    /\ lock = "free"
    /\ tpc = [t \in {"add", "timer"} |-> "idle"]
    /\ to_write = [t \in {"add", "timer"} |-> <<>>]
    /\ inserted = [t \in {"add", "timer"} |-> 0]
    /\ ipc = "idle"
    /\ addArg = Row(0, None, None)
    /\ data_counter = 0
    /\ accepted = {}
    /\ forwarded = 0
    /\ lastRecord = NoRecord
    /\ timerFlushes = 0

Init ==
    /\ InitCommon
    /\ buffer = <<>>
    /\ ScoringIdle
    /\ ClientIdle
    /\ log = <<Row(1, Fin(140, 1), Fin(10, 1))>>
    /\ \/ pending = EmptyDir
       \/ \E k \in LeftOverKinds :
             pending = WriteFile(EmptyDir, ArchiveName("session_0", 0), LeftOver(k))

Next ==
    \/ \E url \in RequestUrls, writeOk \in BOOLEAN : EndSession(url, writeOk)
    \/ Tick
    \/ WorkerCycle
    \/ \E o \in PostOutcomes : WorkerPost(o)
    \/ WorkerPause
    \/ WorkerCancel
    \/ \E n \in Names : RetryArchiveSend(n)
    \/ ClearSentArchives

Spec == Init /\ [][Next]_vars

TypeOK ==
    /\ now \in 0..MaxClock
    /\ DOMAIN pending \subseteq Names
    /\ DOMAIN sent \subseteq Names
    /\ DOMAIN errors \subseteq Names
    /\ wpc \in {"sleep", "post", "pause", "cancelled"}

\* ------------------------------------------------------------------------
\* Properties of the outbox
\* ------------------------------------------------------------------------
InArea(dir, k) == \E n \in DOMAIN dir : dir[n].id = k
AreasHolding(k) ==
    (IF InArea(pending, k) THEN 1 ELSE 0) + (IF InArea(sent, k) THEN 1 ELSE 0)
        + (IF InArea(errors, k) THEN 1 ELSE 0)
\* the entry's document names no destination: empty URL, no field, no metadata
NoEndpoint(d) == d.kind \in {"empty", "absent", "nometa"}
Is2xx(o) == o.kind = "status" /\ o.code >= 200 /\ o.code <= 299
\* entry n is put into (or replaced in) directory dir by this step
Enters(n, dir, dirNext) == n \in DOMAIN dirNext /\ (n \notin DOMAIN dir \/ dirNext[n] # dir[n])
Leaves(n, dir, dirNext) == n \in DOMAIN dir /\ n \notin DOMAIN dirNext
\* the worker returns from client.post in this step
PostReturns == wpc = "post" /\ wpc' = "pause"
\* the worker issues a POST in this step
PostIssued == wpc # "post" /\ wpc' = "post"

\* C1: every archive end_session has written is in exactly one of pending,
\* sent and errors, unless clear-sent has removed it.
C1_EveryArchiveInExactlyOneArea ==
    \A k \in enqueued : IF k \in cleared THEN AreasHolding(k) = 0 ELSE AreasHolding(k) = 1

\* C2: an entry (a file name) enters sent only from pending and only in the step
\* in which the POST of that entry returned a success status; it enters errors
\* only from pending and only when its document names no destination; it leaves
\* errors only into pending, and the worker takes no part in that; it leaves
\* pending only into sent or errors; the worker POSTs only entries it has just
\* read from pending, and never takes an entry out of sent; a worker step over
\* an empty queue changes no area, POSTs nothing and notifies nothing.
C2_OnlyTheListedMoves ==
    [][/\ (DOMAIN pending = {} /\ (WorkerCycle \/ WorkerPause)) =>
             (UNCHANGED dirVars /\ wpc' = "sleep" /\ UNCHANGED notified)
       /\ \A n \in Names :
        /\ Enters(n, sent, sent') =>
              /\ Leaves(n, pending, pending') /\ sent'[n] = pending[n]
              /\ PostReturns /\ wcur = n /\ IsSuccess(wstatus')
        /\ Enters(n, errors, errors') =>
              /\ Leaves(n, pending, pending') /\ errors'[n] = pending[n]
              /\ NoEndpoint(pending[n])
        /\ Leaves(n, errors, errors') =>
              /\ n \in DOMAIN pending' /\ pending'[n] = errors[n]
              /\ UNCHANGED <<workerVars, sent>>
        /\ Leaves(n, pending, pending') =>
              \/ n \in DOMAIN sent' /\ sent'[n] = pending[n]
              \/ n \in DOMAIN errors' /\ errors'[n] = pending[n]
        /\ (PostIssued /\ wcur' = n) => (n \in DOMAIN pending /\ wdoc' = pending[n])
        /\ (Leaves(n, sent, sent') \/ (n \in DOMAIN sent /\ n \in DOMAIN sent' /\ sent'[n] # sent[n]))
              => (UNCHANGED workerVars \/ (PostReturns /\ wcur = n /\ n \in DOMAIN pending))
      ]_vars
\* an entry has gone from pending to sent and the queue is empty again
C2_Witness ==
    /\ DOMAIN sent # {} /\ DOMAIN errors # {} /\ DOMAIN pending = {}
    /\ wpc = "sleep" /\ notified >= 1

\* C3 as stated: when the POST of a pending entry returns, any 2xx status moves
\* the entry to sent and any other outcome leaves it in pending.
C3_Any2xxMovesToSent ==
    [][(PostReturns /\ wcur \in DOMAIN pending) =>
          IF Is2xx(wstatus')
          THEN Leaves(wcur, pending, pending') /\ wcur \in DOMAIN sent'
          ELSE pending' = pending /\ sent' = sent /\ errors' = errors
      ]_vars
\* C3 amended: the statuses 200, 201 and 202 move the entry to sent; every
\* other outcome (204 and the other statuses, timeout, refused connection, any
\* exception) leaves pending, sent and errors as they are, so that the next
\* cycle lists the entry again.
C3_SuccessCodesMoveToSent ==
    [][(PostReturns /\ wcur \in DOMAIN pending) =>
          IF wstatus'.kind = "status" /\ wstatus'.code \in {200, 201, 202}
          THEN /\ Leaves(wcur, pending, pending')
               /\ wcur \in DOMAIN sent' /\ sent'[wcur] = pending[wcur]
          ELSE pending' = pending /\ sent' = sent /\ errors' = errors
      ]_vars
\* an entry whose POST failed before has been delivered with status 202
C3_Witness ==
    /\ wpc = "pause" /\ wstatus = Status(202)
    /\ wcur \in DOMAIN sent /\ wcur \in retried

\* C5: when the worker comes to a pending entry whose document names no
\* destination, the entry is in errors after that step, with the same document,
\* no longer in pending, and no POST is issued for it; an entry leaves errors
\* only by the manual retry, which puts it back into pending.
Examined(files, rest) == {files[i] : i \in 1..(Len(files) - Len(rest))}
C5_NoEndpointGoesToErrors ==
    [][/\ \A n \in Names :
            /\ ( /\ n \in DOMAIN pending /\ NoEndpoint(pending[n])
                 /\ \/ WorkerCycle /\ n \in Examined(SortedNames(DOMAIN pending), wlist')
                    \/ WorkerPause /\ n \in Examined(wlist, wlist') )
               => /\ n \in DOMAIN errors' /\ errors'[n] = pending[n]
                  /\ n \notin DOMAIN pending'
                  /\ ~(wpc' = "post" /\ wcur' = n)
            /\ (n \in DOMAIN errors /\ n \notin DOMAIN errors')
               => (n \in DOMAIN pending' /\ pending'[n] = errors[n] /\ UNCHANGED workerVars)
      ]_vars
\* entries without URL field, without metadata and with an empty URL have been
\* quarantined, and no POST was made
C5_Witness ==
    /\ \E n \in DOMAIN errors : errors[n].kind \in {"absent", "nometa"}
    /\ \E n \in DOMAIN errors : errors[n].kind = "empty"
    /\ notified = 0 /\ retried = {} /\ wpc = "sleep"

\* C6: a step emits one archive_sent notification if it moves an entry from
\* pending to sent and none otherwise, whatever the POST returned.
C6_OneNotificationPerMove ==
    [][notified' = notified +
          (IF \E n \in Names : Leaves(n, pending, pending') /\ n \in DOMAIN sent'
                                 /\ sent'[n] = pending[n]
           THEN 1 ELSE 0)
      ]_vars
\* an entry that got a 503 in an earlier cycle was delivered with 200: it is in
\* sent and one notification has been emitted
C6_Witness ==
    /\ wstatus = Status(200) /\ wpc = "pause"
    /\ wcur \in retried /\ wcur \in DOMAIN sent
    /\ notified = 1

\* ------------------------------------------------------------------------
\* The outbox with a worker that is scheduled fairly and is not cancelled
\* ------------------------------------------------------------------------
LivePostOutcomes == {Status(200), Status(503), Raised("TimeoutException")}

LiveNext ==
    \/ \E url \in RequestUrls, writeOk \in BOOLEAN : EndSession(url, writeOk)
    \/ Tick
    \/ WorkerCycle
    \/ \E o \in LivePostOutcomes : WorkerPost(o)
    \/ WorkerPause
    \/ Recover
    \/ \E n \in Names : RetryArchiveSend(n)
    \/ ClearSentArchives

\* asyncio resumes the worker when its sleep ends or its request completes
LiveSpec ==
    /\ Init /\ [][LiveNext]_vars
    /\ WF_vars(WorkerCycle)
    /\ WF_vars(WorkerPause)
    /\ WF_vars(\E o \in LivePostOutcomes : WorkerPost(o))

\* C4: once the destination answers every POST with a success status, an entry
\* that is pending with a destination endpoint is eventually in sent.
C4_PendingEventuallySent ==
    \A n \in Names :
        [](( /\ alwaysOk
             /\ n \in DOMAIN pending
             /\ pending[n].kind = "url") => <>(n \in DOMAIN sent))

\* ------------------------------------------------------------------------
\* Ingestion, the writer's batch and end_session
\* ------------------------------------------------------------------------
GoodRecord == Record("ok", JsonNumber(Fin(140, 1)), JsonNumber(Fin(10, 1)))

BufferInit ==
    /\ InitCommon
    /\ buffer = <<>>
    /\ ScoringIdle
    /\ ClientIdle
    /\ log = <<>>
    /\ pending = EmptyDir

\* the ingestion loop hands the next well-formed record to process_data
ReceiveGood ==
    /\ data_counter < MaxSamples
    /\ ProcessData(GoodRecord)
    /\ UNCHANGED clientVars

BufferNext ==
    \/ ReceiveGood
    \/ AddCall
    \/ BroadcastCtgData
    \/ TimerFire
    \/ \E t \in {"add", "timer"} : FlushLocked(t)
    \/ \E t \in {"add", "timer"}, ok \in BOOLEAN : FlushWrite(t, ok)
    \/ \E url \in RequestUrls : EndSession(url, TRUE)
    \/ \E s \in Sessions : SwitchSession(s)
    \/ Tick

BufferSpec == BufferInit /\ [][BufferNext]_vars

\* C7: no thread waits for the buffer lock while the thread that holds the lock
\* is itself waiting for it; add(), which calls _flush at the size threshold,
\* therefore gets through _flush and returns.
C7_LockHolderNeverWaitsForLock ==
    lock # "free" => tpc[lock] # "flush"

\* C8: an end_session call that finds rows in the sample log answers success,
\* leaves the log empty, removes the clinical data of the ended session, makes a
\* different session id the active one and adds exactly one archive to pending.
C8_EndSessionClearsAndSwitches ==
    [][((\E url \in RequestUrls : EndSession(url, TRUE)) /\ log # <<>>) =>
          /\ endResponse' = "success"
          /\ log' = <<>>
          /\ current_session_id \notin patient_clinical_data'
          /\ current_session_id' # current_session_id
          /\ nextId' = nextId + 1
          /\ InArea(pending', nextId)
      ]_vars

\* C9: the archive end_session writes holds every row that add() has appended
\* to the batch so far, whether the row is still in the batch or already in the
\* sample log.
C9_ArchiveHoldsEveryAcceptedRow ==
    [][(nextId' = nextId + 1) =>
          \A n \in DOMAIN pending' : pending'[n].id = nextId =>
              \A dp \in accepted : \E i \in 1..Len(pending'[n].ctg_records) :
                  pending'[n].ctg_records[i].data_point = dp
      ]_vars

\* ------------------------------------------------------------------------
\* Ingestion of records of any content
\* ------------------------------------------------------------------------
RawBpm ==
    { JsonNumber(Fin(140, 1)), JsonNumber(Fin(499, 10)), JsonNumber(Fin(50, 1)),
      JsonNumber(Fin(201, 1)), JsonNumber(Fin(2011, 10)),
      JsonNumber(NaN), JsonNumber(PosInf),
      JsonString(<<"1", "4", "0", ",", "5">>), JsonString(<<" ", "6", "0", " ">>),
      JsonString(<<"n", "a", "n">>), JsonString(<<"-", "I", "n", "f">>),
      JsonString(<<"1", "4", "x">>), JsonBool(TRUE), JsonNull }
RawUterus ==
    { JsonNumber(Fin(0, 1)), JsonNumber(Fin(-1, 10)), JsonNumber(Fin(120, 1)),
      JsonNumber(Fin(1201, 10)), JsonString(<<"1", "2", ".", "5">>),
      JsonNumber(NaN), JsonBool(TRUE) }
RawRecords ==
    {Record("ok", b, u) : b \in RawBpm, u \in RawUterus}
        \cup {Record(sh, GoodRecord.bpm, GoodRecord.uterus) : sh \in Shapes \ {"ok"}}

\* the ingestion loop hands the next decoded record to process_data
ReceiveAny ==
    /\ data_counter < MaxRecords
    /\ \E data \in RawRecords : ProcessData(data)
    /\ UNCHANGED clientVars

IngestNext ==
    \/ ReceiveAny
    \/ AddCall
    \/ BroadcastCtgData
    \/ TimerFire
    \/ \E t \in {"add", "timer"} : FlushLocked(t)
    \/ \E t \in {"add", "timer"}, ok \in BOOLEAN : FlushWrite(t, ok)

IngestSpec == BufferInit /\ [][IngestNext]_vars

\* lo <= x <= hi for a float x: a finite value within the bounds
InRange(x, lo, hi) == x.cls = "fin" /\ lo * x.den <= x.num /\ x.num <= hi * x.den
RowInRange(r) == InRange(r.bpm_value, 50, 201) /\ InRange(r.uterus_value, 0, 120)
CoercedInRange(data) ==
    /\ data.shape = "ok"
    /\ InRange(safe_float_convert(data.bpm), 50, 201)
    /\ InRange(safe_float_convert(data.uterus), 0, 120)
StoredRows == Range(buffer) \cup Range(log) \cup Range(to_write["add"]) \cup Range(to_write["timer"])

\* C10: process_data hands a record on to the buffer and the broadcast exactly
\* when its coerced bpm is in [50,201] and its coerced uterus value in [0,120],
\* and every row in the batch or in the sample log has its values in these
\* ranges.
C10_ForwardedIffInRange ==
    /\ [](\A r \in StoredRows : RowInRange(r))
    /\ [][(data_counter' = data_counter + 1) =>
             ((ipc' = "add") <=> CoercedInRange(lastRecord'))]_vars

\* ------------------------------------------------------------------------
\* The scoring engine (final_prediction_service.py)
\* ------------------------------------------------------------------------
\* Units: heart rates in bpm; variability and trend scores in tenths;
\* probabilities, ratios, signal quality, weights and the index in hundredths.
ORIGINAL_SAMPLING_RATE == 1
TARGET_SAMPLING_RATE == 4
INTERPOLATION_FACTOR == TARGET_SAMPLING_RATE \div ORIGINAL_SAMPLING_RATE
LONG_WINDOW_MINUTES == 10
LONG_WINDOW_SAMPLES == LONG_WINDOW_MINUTES * 60 * TARGET_SAMPLING_RATE
\* int(SHORT_WINDOW_MINUTES * 60 * TARGET_SAMPLING_RATE) with 0.25 minutes
SHORT_WINDOW_SAMPLES == (60 * TARGET_SAMPLING_RATE) \div 4
SHORT_PATTERN_MIN_DURATION == 5 * TARGET_SAMPLING_RATE
SHORT_PROLONGED_DURATION == 30 * TARGET_SAMPLING_RATE

\* the entries of the dictionary extract_features returns that the engine reads
Features(loss, baseline, variability, accel, decel, deep, prolonged) ==
    [signal_loss_ratio |-> loss, baseline_bpm |-> baseline, variability |-> variability,
     accelerations_count |-> accel, decelerations_count |-> decel,
     deep_decelerations_count |-> deep, prolonged_decelerations |-> prolonged]

\* the fifth sub-score, if fetal movements were not scored
MovementsNotScored(scores) == 0
\* scores['movements'] = scores['accelerations']
movements_score(scores) == scores.accelerations

\* FischerScoreCalculator.calculate
calculate(features) ==
    LET baseline == features.baseline_bpm
        variability == features.variability
        accel_count == features.accelerations_count
        decel_count == features.decelerations_count
        deep_decel == features.deep_decelerations_count
        prolonged_decel == features.prolonged_decelerations
        scores ==
            [baseline |-> IF 110 <= baseline /\ baseline <= 160 THEN 2
                          ELSE IF (100 <= baseline /\ baseline < 110)
                                   \/ (160 < baseline /\ baseline <= 170) THEN 1
                          ELSE 0,
             variability |-> IF variability >= 50 THEN 2
                             ELSE IF variability >= 30 THEN 1 ELSE 0,
             accelerations |-> IF accel_count >= 2 THEN 2
                               ELSE IF accel_count >= 1 THEN 1 ELSE 0,
             decelerations |-> IF decel_count = 0 THEN 2
                               ELSE IF decel_count = 1 /\ deep_decel = 0
                                        /\ prolonged_decel = 0 THEN 1
                               ELSE 0]
        movements == movements_score(scores)
        total_score == scores.baseline + scores.variability + scores.accelerations
                           + scores.decelerations + movements
    IN  [total_score |-> total_score,
         max_score |-> 10,
         interpretation |-> IF total_score >= 8 THEN "Normal"
                            ELSE IF total_score >= 6 THEN "Suspicious"
                            ELSE "Pathological",
         risk_category |-> IF total_score >= 8 THEN "LOW"
                           ELSE IF total_score >= 6 THEN "MODERATE" ELSE "HIGH",
         detailed_scores |-> [baseline |-> scores.baseline,
                              variability |-> scores.variability,
                              accelerations |-> scores.accelerations,
                              decelerations |-> scores.decelerations,
                              movements |-> movements]]

\* the texts _predict_with_rules appends to risk_factors, word by word and
\* transliterated ("Критическая брадикардия: ..", "Критически низкая .." etc.)
RiskFactorTexts ==
    [critical_bradycardia |-> <<"Kriticheskaya", "bradikardiya">>,
     bradycardia |-> <<"Bradikardiya">>,
     marked_tachycardia |-> <<"Vyrazhennaya", "takhikardiya">>,
     tachycardia |-> <<"Takhikardiya">>,
     critically_low_variability |-> <<"Kriticheski", "nizkaya", "variabelnost">>,
     reduced_variability |-> <<"Snizhennaya", "variabelnost">>,
     borderline_variability |-> <<"Pogranichnaya", "variabelnost">>,
     no_accelerations |-> <<"Otsutstvie", "akseleratsiy">>,
     multiple_decelerations |-> <<"Mnozhestvennye", "detseleratsii">>,
     decelerations |-> <<"Detseleratsii">>,
     deep_decelerations |-> <<"Glubokie", "detseleratsii">>,
     prolonged_decelerations |-> <<"Prolongirovannye", "detseleratsii">>]

\* needle in text: the words of needle stand in text one after the other
Contains(text, needle) ==
    \E i \in 0..(Len(text) - Len(needle)) :
        \A j \in 1..Len(needle) : text[i + j] = needle[j]

\* PredictionService._predict_with_rules
_predict_with_rules(features) ==
    LET baseline == features.baseline_bpm
        variability == features.variability
        accelerations == features.accelerations_count
        decelerations == features.decelerations_count
        deep_decels == features.deep_decelerations_count
        prolonged_decels == features.prolonged_decelerations
        \* each step: <<what is added to risk_score, the factor appended>>
        steps ==
            << IF baseline < 100 THEN <<80, <<RiskFactorTexts.critical_bradycardia>> >>
               ELSE IF baseline < 110 THEN <<50, <<RiskFactorTexts.bradycardia>> >> ELSE <<0, <<>> >>,
               IF baseline > 170 THEN <<70, <<RiskFactorTexts.marked_tachycardia>> >>
               ELSE IF baseline > 160 THEN <<40, <<RiskFactorTexts.tachycardia>> >> ELSE <<0, <<>> >>,
               IF variability < 20 THEN <<70, <<RiskFactorTexts.critically_low_variability>> >>
               ELSE IF variability < 30 THEN <<50, <<RiskFactorTexts.reduced_variability>> >>
               ELSE IF variability < 50 THEN <<30, <<RiskFactorTexts.borderline_variability>> >>
               ELSE <<0, <<>> >>,
               IF accelerations = 0 THEN <<40, <<RiskFactorTexts.no_accelerations>> >> ELSE <<0, <<>> >>,
               IF decelerations >= 3 THEN <<50, <<RiskFactorTexts.multiple_decelerations>> >>
               ELSE IF decelerations >= 1 THEN <<30, <<RiskFactorTexts.decelerations>> >>
               ELSE <<0, <<>> >>,
               IF deep_decels > 0 THEN <<50, <<RiskFactorTexts.deep_decelerations>> >> ELSE <<0, <<>> >>,
               IF prolonged_decels > 0 THEN <<60, <<RiskFactorTexts.prolonged_decelerations>> >>
               ELSE <<0, <<>> >> >>
        risk_score == steps[1][1] + steps[2][1] + steps[3][1] + steps[4][1]
                          + steps[5][1] + steps[6][1] + steps[7][1]
        risk_factors == steps[1][2] \o steps[2][2] \o steps[3][2] \o steps[4][2]
                            \o steps[5][2] \o steps[6][2] \o steps[7][2]
        probability == IF risk_score < 100 THEN risk_score ELSE 100
    IN  [hypoxia_probability |-> probability,
         risk_level |-> IF probability > 60 THEN "CRITICAL"
                        ELSE IF probability > 40 THEN "HIGH"
                        ELSE IF probability > 20 THEN "MODERATE" ELSE "LOW",
         confidence |-> 85,
         method |-> "expert_rules",
         risk_factors |-> risk_factors]

\* what self.model.predict_proba can do: return a probability or raise
MlRaises == [kind |-> "raises", p |-> 0]
MlProba(p) == [kind |-> "proba", p |-> p]

\* _predict_with_ml without its try block: what the classifier left behind is
\* used whether or not it raised
PredictWithMlUnguarded(features, available, outcome) ==
    IF ~available
    THEN _predict_with_rules(features)
    ELSE [hypoxia_probability |-> outcome.p,
          risk_level |-> IF outcome.p > 75 THEN "CRITICAL"
                         ELSE IF outcome.p > 50 THEN "HIGH"
                         ELSE IF outcome.p > 25 THEN "MODERATE" ELSE "LOW",
          confidence |-> 95,
          method |-> "ml_model"]
\* PredictionService._predict_with_ml
_predict_with_ml(features, available, outcome) ==
    IF ~available \/ outcome.kind = "raises"
    THEN _predict_with_rules(features)
    ELSE LET probability == outcome.p
         IN  [hypoxia_probability |-> probability,
              risk_level |-> IF probability > 75 THEN "CRITICAL"
                             ELSE IF probability > 50 THEN "HIGH"
                             ELSE IF probability > 25 THEN "MODERATE" ELSE "LOW",
              confidence |-> 95,
              method |-> "ml_model"]

Abs(x) == IF x < 0 THEN -x ELSE x

\* TrendAnalyzer.analyze on a history of n samples whose thirds have medians
\* that differ by total_change (last - first) and recent_change (last - middle)
TrendAnalyzer_analyze(n, total_change, recent_change) ==
    IF n < LONG_WINDOW_SAMPLES
    THEN [status |-> "insufficient_data", trend_score |-> 5]
    ELSE IF Abs(total_change) < 5 THEN [status |-> "stable", trend_score |-> 0]
    ELSE IF total_change > 10 THEN [status |-> "increasing", trend_score |-> 3]
    ELSE IF total_change < -10 THEN [status |-> "decreasing", trend_score |-> 4]
    ELSE IF recent_change < -5 THEN [status |-> "deteriorating", trend_score |-> 5]
    ELSE [status |-> "stable", trend_score |-> 1]

\* the loop over ml_result['risk_factors'] in _calculate_fwbs
RECURSIVE FactorPenalties(_)
FactorPenalties(factors) ==
    IF factors = <<>> THEN 0
    ELSE (IF Contains(Head(factors), <<"Kriticheskaya">>) THEN 2000
          ELSE IF Contains(Head(factors), <<"Vyrazhennaya">>) THEN 1500
          ELSE IF Contains(Head(factors), RiskFactorTexts.reduced_variability) THEN 1000
          ELSE 0) + FactorPenalties(Tail(factors))

\* the weights of _calculate_fwbs, in hundredths
rule_weight(ml_result) == IF ml_result.method = "expert_rules" THEN 70 ELSE 60
fischer_weight(ml_result) == IF ml_result.method = "expert_rules" THEN 30 ELSE 20

\* the fwbs of _calculate_fwbs before its last line
WeightedSum(fischer_result, ml_result, trend_result, signal_quality, clinical_risks) ==
    LET fischer_penalty == (10 - fischer_result.total_score) * 2
        ml_penalty == ml_result.hypoxia_probability
        trend_penalty == trend_result.trend_score * 4
    IN  10000 - fischer_penalty * fischer_weight(ml_result)
              - ml_penalty * rule_weight(ml_result)
              - (IF trend_result.status # "insufficient_data" THEN trend_penalty * 20 ELSE 0)
              - (IF "risk_factors" \in DOMAIN ml_result
                 THEN FactorPenalties(ml_result.risk_factors) ELSE 0)
              - (IF signal_quality < 50 THEN 1000
                 ELSE IF signal_quality < 70 THEN 500 ELSE 0)
              - clinical_risks * 300

Max(a, b) == IF a >= b THEN a ELSE b
Min(a, b) == IF a <= b THEN a ELSE b

\* the weighted sum returned as it is
CalculateFwbsUnclamped(fischer_result, ml_result, trend_result, signal_quality, clinical_risks) ==
    WeightedSum(fischer_result, ml_result, trend_result, signal_quality, clinical_risks)
\* PredictionService._calculate_fwbs
_calculate_fwbs(fischer_result, ml_result, trend_result, signal_quality, clinical_risks) ==
    Max(0, Min(10000,
        WeightedSum(fischer_result, ml_result, trend_result, signal_quality, clinical_risks)))

\* the thresholds tested from the lowest up
DeterminePriorityLowestFirst(fwbs) ==
    IF fwbs >= 3500 THEN [action_priority |-> "URGENT", urgency_level |-> 4]
    ELSE IF fwbs >= 5000 THEN [action_priority |-> "WARNING", urgency_level |-> 3]
    ELSE IF fwbs >= 6500 THEN [action_priority |-> "ATTENTION", urgency_level |-> 2]
    ELSE IF fwbs >= 8000 THEN [action_priority |-> "NORMAL", urgency_level |-> 1]
    ELSE [action_priority |-> "CRITICAL", urgency_level |-> 5]
\* PredictionService._determine_priority (the recommendation text left out)
_determine_priority(fwbs) ==
    IF fwbs >= 8000 THEN [action_priority |-> "NORMAL", urgency_level |-> 1]
    ELSE IF fwbs >= 6500 THEN [action_priority |-> "ATTENTION", urgency_level |-> 2]
    ELSE IF fwbs >= 5000 THEN [action_priority |-> "WARNING", urgency_level |-> 3]
    ELSE IF fwbs >= 3500 THEN [action_priority |-> "URGENT", urgency_level |-> 4]
    ELSE [action_priority |-> "CRITICAL", urgency_level |-> 5]

\* ------------------------------------------------------------------------
\* The composite index and the priority mapping as functions of their arguments
\* ------------------------------------------------------------------------
MaxClinicalRisks == 3

\* everything but the call, its locals and its result
frameContext == <<now, alwaysOk, dirVars, workerVars, archiveVars, sessionVars,
                  log, buffer, threadVars, ingestVars, timerFlushes,
                  model_available, last_analysis_result, analysis_results, events,
                  active_connections, accepted_sockets, analysis_history, analyze_pc,
                  clientVars>>

\* the dictionaries FischerScoreCalculator.calculate can return
FischerResults ==
    {[total_score |-> s, max_score |-> 10,
      interpretation |-> IF s >= 8 THEN "Normal" ELSE IF s >= 6 THEN "Suspicious" ELSE "Pathological",
      risk_category |-> IF s >= 8 THEN "LOW" ELSE IF s >= 6 THEN "MODERATE" ELSE "HIGH"] : s \in 0..10}
\* hypoxia probabilities, in hundredths
Probabilities == {0, 1, 50, 100}
\* what the model does when asked: nothing is asked without a model
MlOutcomes == {MlRaises} \cup {MlProba(pr) : pr \in Probabilities}
\* risk-factor lists: none, each flagged kind alone, an unflagged one, all flagged
FactorLists ==
    {<<>>, <<RiskFactorTexts.critical_bradycardia>>, <<RiskFactorTexts.marked_tachycardia>>, <<RiskFactorTexts.reduced_variability>>,
     <<RiskFactorTexts.no_accelerations>>, <<RiskFactorTexts.critically_low_variability, RiskFactorTexts.no_accelerations, RiskFactorTexts.multiple_decelerations>>,
     <<RiskFactorTexts.critical_bradycardia, RiskFactorTexts.marked_tachycardia, RiskFactorTexts.reduced_variability>>}
\* results of _predict_with_rules and of _predict_with_ml with a model
MlResults ==
    {[hypoxia_probability |-> pr, method |-> "expert_rules", risk_factors |-> fs] :
         pr \in Probabilities, fs \in FactorLists}
    \cup {[hypoxia_probability |-> pr, method |-> "ml_model"] : pr \in Probabilities}
\* the trend of a history shorter than the long window, as analyze() builds it
ShortHistoryTrend == [status |-> "insufficient_data", trend_score |-> 1]
TotalChanges == {-11, -7, 0, 7, 11}
RecentChanges == {-6, 0}
TrendResults ==
    {TrendAnalyzer_analyze(n, tc, rc) :
         n \in {LONG_WINDOW_SAMPLES - 1, LONG_WINDOW_SAMPLES}, tc \in TotalChanges, rc \in RecentChanges}
    \cup {ShortHistoryTrend}
\* 1 - signal_loss_ratio, in hundredths
SignalQualities == {0, 49, 50, 69, 70, 100}
\* the index, in hundredths
IndexValues == 0..10000

FwbsCalls ==
    {[fn |-> "_calculate_fwbs", args |-> <<f, m, t, q, c>>] :
         f \in FischerResults, m \in MlResults, t \in TrendResults,
         q \in SignalQualities, c \in 0..MaxClinicalRisks}
PriorityCalls == {[fn |-> "_determine_priority", args |-> <<x>>] : x \in IndexValues}
\* feature sets: a reactive trace, a flat one, bradycardia with decelerations,
\* tachycardia with reduced variability
FeatureSets ==
    {Features(0, 140, 100, 2, 0, 0, 0), Features(0, 140, 0, 0, 0, 0, 0),
     Features(10, 95, 40, 0, 3, 1, 1), Features(0, 165, 25, 1, 1, 0, 0)}
PredictCalls ==
    {[fn |-> "_predict_with_ml", args |-> <<f, a, o>>] :
         f \in FeatureSets, a \in BOOLEAN, o \in MlOutcomes}
\* feature sets on either side of every threshold of the rule score
CalculateCalls ==
    {[fn |-> "calculate", args |-> <<Features(0, b, v, a, d[1], d[2], d[3])>>] :
         b \in {99, 100, 109, 110, 160, 161, 170, 171}, v \in {29, 30, 49, 50},
         a \in 0..2, d \in {<<0, 0, 0>>, <<1, 0, 0>>, <<1, 1, 0>>, <<1, 0, 1>>, <<2, 0, 0>>}}

ScoreInit ==
    /\ InitCommon
    /\ buffer = <<>>
    /\ ClientIdle
    /\ log = <<>>
    /\ pending = EmptyDir
    /\ model_available = FALSE
    /\ last_analysis_result = EmptyDict
    /\ analysis_results = <<>>
    /\ active_connections = <<>>
    /\ accepted_sockets = 0
    /\ analysis_history = <<>>
    /\ analyze_pc = [t \in AnalyzeCallers |-> "idle"]
    /\ events = <<>>
    /\ ret = NoRet
    /\ frame = NoFrame
    /\ call \in FwbsCalls \cup PriorityCalls \cup PredictCalls \cup CalculateCalls

CallCalculateFwbs ==
    /\ call.fn = "_calculate_fwbs"
    /\ ~ret.done
    /\ ret' = [done |-> TRUE,
               val |-> _calculate_fwbs(call.args[1], call.args[2], call.args[3],
                                       call.args[4], call.args[5])]
    /\ UNCHANGED <<call, frame, frameContext>>

CallDeterminePriority ==
    /\ call.fn = "_determine_priority"
    /\ ~ret.done
    /\ ret' = [done |-> TRUE, val |-> _determine_priority(call.args[1])]
    /\ UNCHANGED <<call, frame, frameContext>>

CallPredictWithMl ==
    /\ call.fn = "_predict_with_ml"
    /\ ~ret.done
    /\ ret' = [done |-> TRUE,
               val |-> _predict_with_ml(call.args[1], call.args[2], call.args[3])]
    /\ UNCHANGED <<call, frame, frameContext>>

CallCalculate ==
    /\ call.fn = "calculate"
    /\ ~ret.done
    /\ ret' = [done |-> TRUE, val |-> calculate(call.args[1])]
    /\ UNCHANGED <<call, frame, frameContext>>

ScoreNext ==
    CallCalculateFwbs \/ CallDeterminePriority \/ CallPredictWithMl \/ CallCalculate

ScoreSpec == ScoreInit /\ [][ScoreNext]_vars

Returned(fn) == call.fn = fn /\ ret.done
\* rule score 0, probability 1, the largest trend penalty, every flagged factor,
\* signal quality below one half
WorstCase(args) ==
    /\ args[1].total_score = 0
    /\ args[2].hypoxia_probability = 100
    /\ args[2].method = "expert_rules"
    /\ args[2].risk_factors = <<RiskFactorTexts.critical_bradycardia, RiskFactorTexts.marked_tachycardia, RiskFactorTexts.reduced_variability>>
    /\ args[3].status = "deteriorating"
    /\ args[4] = 0
\* rule score 10, probability 0, stable trend, full signal quality, no risk factors
IdealCase(args) ==
    /\ args[1].total_score = 10
    /\ args[2].hypoxia_probability = 0
    /\ DictGet(args[2], "risk_factors", <<>>) = <<>>
    /\ args[3] = [status |-> "stable", trend_score |-> 0]
    /\ args[4] = 100
    /\ args[5] = 0

PriorityThresholds == {8000, 6500, 5000, 3500}
PriorityNames == <<"NORMAL", "ATTENTION", "WARNING", "URGENT", "CRITICAL">>

\* C14: every index in [0,100] gets exactly one priority: NORMAL(1) from 80,
\* ATTENTION(2) from 65, WARNING(3) from 50, URGENT(4) from 35, CRITICAL(5)
\* below; a higher index never gets a higher urgency level.
C14_PriorityTotalAndMonotonic ==
    Returned("_determine_priority") =>
        LET x == call.args[1]
            level == 1 + Cardinality({t \in PriorityThresholds : x < t})
        IN  /\ ret.val.urgency_level = level
            /\ ret.val.action_priority = PriorityNames[level]
            /\ \A y \in (PriorityThresholds \cup {x + 1}) :
                   /\ y > x => _determine_priority(y).urgency_level <= ret.val.urgency_level
                   /\ y < x => _determine_priority(y - 1).urgency_level >= ret.val.urgency_level
\* an index just under a threshold has been mapped to the lower priority
C14_Witness ==
    /\ Returned("_determine_priority")
    /\ call.args[1] = 6499
    /\ ret.val = [action_priority |-> "WARNING", urgency_level |-> 3]

\* ------------------------------------------------------------------------
\* Pattern detection over a long window
\* ------------------------------------------------------------------------
\* a signal as its stretches of equal samples: <<[v |-> bpm, n |-> samples], ...>>
RECURSIVE SignalLen(_)
SignalLen(runs) == IF runs = <<>> THEN 0 ELSE Head(runs).n + SignalLen(Tail(runs))
\* fhr[i], i counted from 0
RECURSIVE Sample(_, _)
Sample(runs, i) ==
    IF i < Head(runs).n THEN Head(runs).v ELSE Sample(Tail(runs), i - Head(runs).n)
\* the depth of a segment judged by its first sample only
SliceFirst(runs, start, end) == Sample(runs, start)
\* np.min(fhr[start:end])
SliceMin(runs, start, end) ==
    LET vs == {Sample(runs, k) : k \in start..(end - 1)}
    IN  CHOOSE m \in vs : \A v \in vs : m <= v

\* min_pattern_duration and prolonged_duration of extract_features(.., 'long')
LongMinPatternDuration == 15 * TARGET_SAMPLING_RATE
LongProlongedDuration == 90 * TARGET_SAMPLING_RATE

\* a run is kept only when it is strictly longer than the minimum
LongerThan(length, min_length) == length > min_length
\* the test of _find_segments on a run that has just ended or reaches the end
LongEnough(length, min_length) == length >= min_length

\* above_accel[i] while the accelerations are sought, below_decel[i] afterwards
MaskAt(pc, runs, baseline, i) ==
    IF pc = "accel" THEN Sample(runs, i) > baseline + 15
    ELSE Sample(runs, i) < baseline - 15

\* _find_segments is entered: segments = [], in_segment = False, start = 0
SegmentsFrame(pc, accel) ==
    [pc |-> pc, i |-> 0, in_segment |-> FALSE, start |-> 0, segments |-> <<>>,
     accel_segments |-> accel]

\* window values: the baseline, not below the threshold, below it, below the
\* deep threshold, above the acceleration threshold
BaselineBpm == 140
DipValues == {95, 124}
GapRuns == {[v |-> 125, n |-> 1], [v |-> 140, n |-> 100], [v |-> 160, n |-> 60]}
RunLengths == {0, 10, 59, 60, 61}
SecondRunLengths == {0, 59, 60, 360}

\* drop the empty stretches
RECURSIVE Compact(_)
Compact(runs) ==
    IF runs = <<>> THEN <<>>
    ELSE IF Head(runs).n = 0 THEN Compact(Tail(runs))
    ELSE <<Head(runs)>> \o Compact(Tail(runs))

\* a long window: baseline, a dip, a gap, a second dip, and baseline up to the
\* end of the window unless the second dip reaches it
Window(v, l1, gap, l2, atEnd) ==
    LET lead == 100
        used == lead + l1 + gap.n + l2
        rest == LONG_WINDOW_SAMPLES - used
    IN  IF atEnd
        THEN Compact(<<[v |-> BaselineBpm, n |-> lead + rest], [v |-> v, n |-> l1],
                       gap, [v |-> 95, n |-> l2]>>)
        ELSE Compact(<<[v |-> BaselineBpm, n |-> lead], [v |-> v, n |-> l1],
                       gap, [v |-> 95, n |-> l2], [v |-> BaselineBpm, n |-> rest]>>)
Windows ==
    {Window(v, l1, gap, l2, atEnd) :
         v \in DipValues, l1 \in RunLengths, gap \in GapRuns,
         l2 \in SecondRunLengths, atEnd \in BOOLEAN}

PatternInit ==
    /\ InitCommon
    /\ buffer = <<>>
    /\ ClientIdle
    /\ log = <<>>
    /\ pending = EmptyDir
    /\ model_available = FALSE
    /\ last_analysis_result = EmptyDict
    /\ analysis_results = <<>>
    /\ active_connections = <<>>
    /\ accepted_sockets = 0
    /\ analysis_history = <<>>
    /\ analyze_pc = [t \in AnalyzeCallers |-> "idle"]
    /\ events = <<>>
    /\ ret = NoRet
    /\ \E w \in Windows :
          call = [fn |-> "_detect_patterns",
                  args |-> <<w, BaselineBpm, LongMinPatternDuration, LongProlongedDuration>>]
    /\ frame = SegmentsFrame("accel", <<>>)

\* one iteration of the loop of _find_segments
FindSegmentsLoop ==
    /\ call.fn = "_detect_patterns"
    /\ frame.pc \in {"accel", "decel"}
    /\ frame.i < SignalLen(call.args[1])
    /\ LET i == frame.i
           m == MaskAt(frame.pc, call.args[1], call.args[2], i)
       IN  frame' =
             IF m /\ ~frame.in_segment
             THEN [frame EXCEPT !.i = i + 1, !.in_segment = TRUE, !.start = i]
             ELSE IF ~m /\ frame.in_segment
             THEN [frame EXCEPT !.i = i + 1, !.in_segment = FALSE,
                                !.segments = IF LongEnough(i - frame.start, call.args[3])
                                             THEN Append(@, <<frame.start, i>>) ELSE @]
             ELSE [frame EXCEPT !.i = i + 1]
    /\ UNCHANGED <<call, ret, frameContext>>

\* what _find_segments returns after its loop
FoundSegments ==
    IF frame.in_segment /\ LongEnough(SignalLen(call.args[1]) - frame.start, call.args[3])
    THEN Append(frame.segments, <<frame.start, SignalLen(call.args[1])>>)
    ELSE frame.segments

\* the first _find_segments returns; _detect_patterns calls it on below_decel
AccelerationsFound ==
    /\ call.fn = "_detect_patterns"
    /\ frame.pc = "accel"
    /\ frame.i = SignalLen(call.args[1])
    /\ frame' = SegmentsFrame("decel", FoundSegments)
    /\ UNCHANGED <<call, ret, frameContext>>

\* the second _find_segments returns; _detect_patterns classifies and returns
DetectPatternsReturn ==
    /\ call.fn = "_detect_patterns"
    /\ frame.pc = "decel"
    /\ frame.i = SignalLen(call.args[1])
    /\ LET decel_segments == FoundSegments
           deep_threshold == call.args[2] - 30
           IsDeep(seg) == SliceMin(call.args[1], seg[1], seg[2]) < deep_threshold
           IsProlonged(seg) == seg[2] - seg[1] >= call.args[4]
       IN  ret' = [done |-> TRUE,
                   val |-> [accelerations_count |-> Len(frame.accel_segments),
                            decelerations_count |-> Len(decel_segments),
                            deep_decelerations_count |->
                                Cardinality({k \in DOMAIN decel_segments : IsDeep(decel_segments[k])}),
                            prolonged_decelerations |->
                                Cardinality({k \in DOMAIN decel_segments : IsProlonged(decel_segments[k])})]]
    /\ frame' = NoFrame
    /\ UNCHANGED <<call, frameContext>>

PatternNext == FindSegmentsLoop \/ AccelerationsFound \/ DetectPatternsReturn

PatternSpec == PatternInit /\ [][PatternNext]_vars

\* the maximal stretches below the threshold: neighbouring runs below it joined
RECURSIVE DipLengths(_, _, _)
DipLengths(runs, threshold, open) ==
    IF runs = <<>> THEN (IF open > 0 THEN <<open>> ELSE <<>>)
    ELSE IF Head(runs).v < threshold
         THEN DipLengths(Tail(runs), threshold, open + Head(runs).n)
         ELSE (IF open > 0 THEN <<open>> ELSE <<>>) \o DipLengths(Tail(runs), threshold, 0)
QualifyingDips(runs, baseline) ==
    LET ls == DipLengths(runs, baseline - 15, 0)
    IN  Cardinality({k \in DOMAIN ls : ls[k] >= 60})
\* the window with its dips of bpm 95 taken out
RECURSIVE WithoutDips(_)
WithoutDips(runs) ==
    IF runs = <<>> THEN <<>>
    ELSE <<[v |-> IF Head(runs).v = 95 THEN BaselineBpm ELSE Head(runs).v,
            n |-> Head(runs).n]>> \o WithoutDips(Tail(runs))
\* the only sample stretch of value 95 in the window has length n
SingleDipOf(runs, n) ==
    /\ Cardinality({k \in DOMAIN runs : runs[k].v = 95}) = 1
    /\ \E k \in DOMAIN runs : runs[k].v = 95 /\ runs[k].n = n

\* C15: at the end of pattern detection over a long window, decelerations_count
\* is the number of maximal stretches below baseline - 15 that last at least 60
\* samples, a stretch that reaches the end of the window included: one dip of
\* 60 samples of bpm 95 adds exactly 1 to the count of the window without it,
\* one dip of 10 samples adds 0.
C15_DecelerationIffSixtySamples ==
    Returned("_detect_patterns") =>
        LET w == call.args[1]
            n == ret.val.decelerations_count
        IN  /\ n = QualifyingDips(w, call.args[2])
            /\ SingleDipOf(w, 60) => n = QualifyingDips(WithoutDips(w), call.args[2]) + 1
            /\ SingleDipOf(w, 10) => n = QualifyingDips(WithoutDips(w), call.args[2])
\* a dip of exactly 60 samples that reaches the end of the window was counted,
\* next to an earlier dip of 59 samples that was not
C15_Witness ==
    /\ Returned("_detect_patterns")
    /\ \E k \in DOMAIN call.args[1] :
          /\ call.args[1][k] = [v |-> 95, n |-> 59]
          /\ k < Len(call.args[1])
    /\ call.args[1][Len(call.args[1])] = [v |-> 95, n |-> 60]
    /\ ret.val.decelerations_count = 1

\* ------------------------------------------------------------------------
\* The two analysis passes (api.py) over the sample log
\* ------------------------------------------------------------------------
MIN_RECORDS_FOR_SHORT_ANALYSIS == 30
MIN_RECORDS_FOR_FULL_ANALYSIS == 600

\* get_data_from_db(limit): the newest rows, oldest first (df.iloc[::-1])
get_data_from_db(limit) == SubSeq(log, Len(log) - Min(Len(log), limit) + 1, Len(log))
\* the fhr column, for rows that hold whole numbers
Fhr(rows) == [i \in 1..Len(rows) |-> rows[i].bpm_value.num \div rows[i].bpm_value.den]
\* the rows the last SHORT_WINDOW_SAMPLES interpolated samples lie between
ShortWindowRows(fhr) ==
    SubSeq(fhr, Len(fhr) - Min(Len(fhr), SHORT_WINDOW_SAMPLES \div INTERPOLATION_FACTOR + 1) + 1,
           Len(fhr))
Lowest(fhr) == CHOOSE m \in Range(fhr) : \A v \in Range(fhr) : m <= v
Highest(fhr) == CHOOSE m \in Range(fhr) : \A v \in Range(fhr) : m >= v

\* what extract_features can return for a window interpolated from the values
\* fhr, all within the signal range. A constant window has its value as
\* baseline, no variability and no pattern. Otherwise the baseline is a median
\* and lies within the values, the variability (a standard deviation, or twice
\* a mean sample-to-sample difference) is at most half their spread, a pattern
\* needs a sample more than 15 bpm, a deep one more than 30 bpm from the
\* baseline, and a prolonged one fits only into a long window.
extract_features(fhr, window_type) ==
    LET lo == Lowest(fhr)
        hi == Highest(fhr)
        spread == hi - lo
    IN  IF spread = 0 THEN {Features(0, lo, 0, 0, 0, 0, 0)}
        ELSE {f \in {Features(0, b, v, a, d, dp, pr) :
                        b \in {lo, hi},
                        v \in {0, Min(5 * spread, 50)},
                        a \in IF spread > 15 THEN {0, 1} ELSE {0},
                        d \in IF spread > 15 THEN {0, 1, 3} ELSE {0},
                        dp \in IF spread > 30 THEN {0, 1} ELSE {0},
                        pr \in IF spread > 15 /\ window_type = "long" THEN {0, 1} ELSE {0}} :
                 /\ f.deep_decelerations_count <= f.decelerations_count
                 /\ f.prolonged_decelerations <= f.decelerations_count
                 /\ f.accelerations_count > 0 => f.baseline_bpm < hi
                 /\ f.decelerations_count > 0 => f.baseline_bpm > lo}
\* the medians of the thirds of a window differ by less than its spread
TrendOutcomes(fhr) ==
    LET spread == Highest(fhr) - Lowest(fhr)
    IN  {TrendAnalyzer_analyze(INTERPOLATION_FACTOR * Len(fhr), tc, rc) :
            tc \in {c \in TotalChanges : Abs(c) <= spread},
            rc \in {c \in RecentChanges : Abs(c) <= spread}}

\* round(x, 1) for x >= 0 in hundredths; a tie goes to the even tenth
Round1(x) ==
    LET q == x \div 10
        r == x % 10
    IN  IF r < 5 THEN 10 * q
        ELSE IF r > 5 THEN 10 * (q + 1)
        ELSE IF q % 2 = 0 THEN 10 * q ELSE 10 * (q + 1)

\* PredictionService._detect_clinical_patterns: type and severity of each finding
_detect_clinical_patterns(features, signal_quality) ==
    (IF features.prolonged_decelerations > 0
     THEN <<[type |-> "prolonged_deceleration", severity |-> "high"]>> ELSE <<>>)
    \o (IF features.deep_decelerations_count > 1
        THEN <<[type |-> "repeated_deep_decelerations", severity |-> "high"]>> ELSE <<>>)
    \o (IF features.variability < 40
        THEN <<[type |-> "reduced_variability",
                severity |-> IF features.variability < 20 THEN "high" ELSE "moderate"]>>
        ELSE <<>>)
    \o (IF features.accelerations_count = 0
        THEN <<[type |-> "absent_accelerations", severity |-> "moderate"]>> ELSE <<>>)
    \o (IF features.baseline_bpm < 110 /\ features.baseline_bpm > 0
        THEN <<[type |-> "bradycardia",
                severity |-> IF features.baseline_bpm < 100 THEN "high" ELSE "moderate"]>>
        ELSE <<>>)
    \o (IF features.baseline_bpm > 160
        THEN <<[type |-> "tachycardia",
                severity |-> IF features.baseline_bpm > 170 THEN "high" ELSE "moderate"]>>
        ELSE <<>>)
    \o (IF signal_quality < 60
        THEN <<[type |-> "poor_signal_quality", severity |-> "low"]>> ELSE <<>>)

\* what the feature extractor and the trend analyzer can return inside
\* analyze() for the rows read: the long-window features, the short-window
\* features and the trend
Extractions(rows) ==
    LET fhr == Fhr(rows)
        whole == INTERPOLATION_FACTOR * Len(fhr) >= LONG_WINDOW_SAMPLES
        fhr_long == SubSeq(fhr, Len(fhr) - LONG_WINDOW_SAMPLES \div INTERPOLATION_FACTOR + 1, Len(fhr))
    IN  {[long |-> fl, short |-> fs, trend |-> tr] :
            fl \in IF whole THEN extract_features(fhr_long, "long")
                   ELSE extract_features(fhr, "short"),
            fs \in extract_features(ShortWindowRows(fhr), "short"),
            tr \in IF whole THEN TrendOutcomes(fhr_long) ELSE {ShortHistoryTrend}}

\* the result of analyze() for fewer than 15 rows
InsufficientData ==
    [type |-> "analysis_update", error |-> TRUE, message |-> "insufficient data",
     fetal_wellbeing_index |-> 0, action_priority |-> "ERROR", timestamp |-> now]

\* PredictionService.analyze on the rows it has read from the sample log; ex is
\* what the extraction returned, ml what the model did.
\* Nested sections of the result that repeat its top-level values, the graph
\* data and the readable timestamps are left out.
analyze(timeseries_data, clinical_risks, analysis_type, ex, ml) ==
    LET features_long == ex.long
        features_short == ex.short
        trend_result == ex.trend
    IN  IF Len(timeseries_data) < 15 THEN InsufficientData
        ELSE IF analysis_type = "short_term"
        THEN LET decelerations == features_short.decelerations_count
                 deep_decelerations == features_short.deep_decelerations_count
                 prolonged_decelerations == features_short.prolonged_decelerations
                 critical == prolonged_decelerations > 0 \/ deep_decelerations > 1
                 warning == deep_decelerations > 0 \/ decelerations > 2
             IN  [type |-> "short_term_analysis",
                  analysis_type |-> "short_term",
                  decelerations |-> [total |-> decelerations, deep |-> deep_decelerations,
                                     prolonged |-> prolonged_decelerations],
                  priority |-> IF critical THEN "CRITICAL" ELSE IF warning THEN "WARNING"
                               ELSE IF decelerations > 0 THEN "ATTENTION" ELSE "NORMAL",
                  risk_level |-> IF critical THEN "HIGH" ELSE IF warning THEN "MODERATE" ELSE "LOW",
                  features |-> [baseline_bpm |-> features_short.baseline_bpm,
                                variability |-> features_short.variability,
                                accelerations |-> features_short.accelerations_count,
                                signal_loss_ratio |-> features_short.signal_loss_ratio],
                  timestamp |-> now]
        ELSE LET fischer_result == calculate(features_long)
                 ml_result == _predict_with_ml(features_long, model_available, ml)
                 signal_quality == 100 - features_long.signal_loss_ratio
                 detected_patterns == _detect_clinical_patterns(features_short, signal_quality)
                 fwbs == _calculate_fwbs(fischer_result, ml_result, trend_result,
                                         signal_quality, clinical_risks)
                 priority == _determine_priority(fwbs)
             IN  [type |-> "analysis_update",
                  analysis_type |-> "full",
                  fetal_wellbeing_index |-> Round1(fwbs),
                  action_priority |-> priority.action_priority,
                  urgency_level |-> priority.urgency_level,
                  detected_patterns |-> detected_patterns,
                  detected_patterns_count |-> Len(detected_patterns),
                  fischer_score |-> fischer_result.total_score,
                  ml_probability |-> ml_result.hypoxia_probability,
                  method |-> ml_result.method,
                  trend_status |-> trend_result.status,
                  baseline_fhr |-> features_long.baseline_bpm,
                  variability |-> features_long.variability,
                  accelerations |-> features_short.accelerations_count,
                  decelerations |-> features_short.decelerations_count,
                  signal_quality |-> signal_quality]

\* the 'name' or 'type' of a finding names a deceleration
IsDecelerationPattern(pattern) ==
    DictGet(pattern, "type", "") \in {"prolonged_deceleration", "repeated_deep_decelerations"}
critical_patterns == {"deep_decelerations", "prolonged_decelerations", "late_decelerations"}

\* int((records_count / 600) * 100): the quotient is a binary float, and for
\* these counts its product with 100 lies just under the whole number
TruncatedLow == {174, 342, 348}
ProgressPercent(records_count) ==
    LET floor == (100 * records_count) \div MIN_RECORDS_FOR_FULL_ANALYSIS
    IN  IF records_count \in TruncatedLow THEN floor - 1 ELSE floor


\* every alert of the full pass is of high severity
AlertSeverityAlwaysHigh(fwbs) == "high"
\* "high" if fwbs < 50 else "medium"
AlertSeverity(fwbs) == IF fwbs < 5000 THEN "high" ELSE "medium"

\* EmulatorClient.run_short_term_analysis, from its first line to its return
RunShortTermAnalysis ==
    LET records_count == Len(Get(120))
    IN  /\ call = NoCall
        /\ call' = [fn |-> "run_short_term_analysis", args |-> <<records_count>>]
        /\ IF records_count < MIN_RECORDS_FOR_SHORT_ANALYSIS
           THEN /\ ret' = NoRet
                /\ events' = <<>>
           ELSE \E timeseries_data \in {get_data_from_db(600)} :
                \E ex \in Extractions(timeseries_data) :
                \E result \in {analyze(timeseries_data, 0, "short_term", ex, MlRaises)} :
                  LET decelerations == DictGet(result, "detected_patterns", <<>>)
                      decel_patterns == SelectSeq(decelerations, IsDecelerationPattern)
                      has_critical == \E key \in critical_patterns : DictGet(result, key, 0) > 0
                  IN  /\ ret' = [done |-> TRUE, val |-> result]
                      /\ events' =
                           IF decel_patterns # <<>> \/ has_critical
                           THEN <<[type |-> "short_term_alert",
                                   severity |-> IF has_critical THEN "high" ELSE "medium",
                                   patterns |-> decel_patterns,
                                   records_analyzed |-> records_count]>>
                                \o (IF decel_patterns # <<>>
                                    THEN <<[type |-> "prediction",
                                            data |-> [detected_patterns |-> decel_patterns,
                                                      analysis_type |-> "short_term"]]>>
                                    ELSE <<>>)
                           ELSE <<>>
        /\ UNCHANGED <<frame, model_available, last_analysis_result, analysis_results,
                       active_connections, accepted_sockets, analysis_history, analyze_pc>>
        /\ UNCHANGED <<now, alwaysOk, dirVars, workerVars, archiveVars, sessionVars,
                       log, buffer, threadVars, ingestVars, timerFlushes, clientVars>>

\* an element of analysis_history
HistoryEntry(timestamp, result) ==
    [timestamp |-> timestamp, fwbs |-> result.fetal_wellbeing_index,
     priority |-> result.action_priority]
\* the history after the check of its length, if nothing were ever dropped
HistoryKeptWhole(history) == history
\* if len(self.analysis_history) > 100: self.analysis_history.pop(0)
TrimHistory(history) == IF Len(history) > 100 THEN Tail(history) ELSE history
\* analysis_history.append(..) and the check of the length that follows it
AppendToHistory(history, entry) == TrimHistory(Append(history, entry))

\* the database file: the sample log and the table of saved results
Tables(ctg_data, results) == [ctg_data |-> ctg_data, analysis_results |-> results]
\* the columns of a saved result the model keeps
ResultRow(result) ==
    [fwbs |-> DictGet(result, "fetal_wellbeing_index", 0),
     action_priority |-> DictGet(result, "action_priority", "UNKNOWN")]
\* the INSERT of save_analysis_result, if it named the table of the samples
SaveAnalysisResultIntoCtgData(db, result) ==
    [db EXCEPT !.ctg_data = Append(@, ResultRow(result))]
\* PredictionService.save_analysis_result, called at the end of analyze()
save_analysis_result(db, result) ==
    [db EXCEPT !.analysis_results = Append(@, ResultRow(result))]

\* EmulatorClient.run_full_prediction_analysis(self.current_session_id), from
\* its first line to its return
RunFullPredictionAnalysis ==
    LET session_id == current_session_id
        records_count == Len(Get(MIN_RECORDS_FOR_FULL_ANALYSIS + 1))
    IN  /\ call = NoCall
        /\ call' = [fn |-> "run_full_prediction_analysis", args |-> <<records_count>>]
        /\ IF records_count < MIN_RECORDS_FOR_FULL_ANALYSIS
           THEN /\ ret' = NoRet
                /\ events' = <<[type |-> "analysis_info",
                                status |-> "collecting_data",
                                records_collected |-> records_count,
                                records_required |-> MIN_RECORDS_FOR_FULL_ANALYSIS,
                                progress_percent |-> ProgressPercent(records_count)]>>
                /\ UNCHANGED <<last_analysis_result, analysis_results, analysis_history, log>>
           ELSE \E timeseries_data \in {get_data_from_db(600)} :
                \E ex \in Extractions(timeseries_data), ml \in MlOutcomes,
                   clinical_risks \in IF session_id \in patient_clinical_data
                                      THEN 0..MaxClinicalRisks ELSE {0} :
                \E result \in {[clinical_data_applied |-> clinical_risks > 0,
                                 risk_factors |-> clinical_risks,
                                 session_id |-> session_id,
                                 records_analyzed |-> records_count]
                                @@ analyze(timeseries_data, clinical_risks, "full", ex, ml)} :
                  LET fwbs == DictGet(result, "fetal_wellbeing_index", 10000)
                      risk_level == DictGet(result, "risk_level", "unknown")
                      db == save_analysis_result(Tables(log, analysis_results), result)
                  IN  /\ ret' = [done |-> TRUE, val |-> result]
                      /\ last_analysis_result' = result
                      /\ analysis_history' =
                            AppendToHistory(analysis_history, HistoryEntry(now, result))
                      /\ log' = db.ctg_data
                      /\ analysis_results' = db.analysis_results
                      /\ events' =
                           <<[type |-> "prediction", data |-> result]>>
                           \o (IF risk_level \in {"high", "critical"} \/ fwbs < 7000
                               THEN <<[type |-> "alert",
                                       severity |-> AlertSeverity(fwbs),
                                       records_analyzed |-> records_count]>>
                               ELSE <<>>)
        /\ UNCHANGED <<frame, model_available, active_connections, accepted_sockets,
                       analyze_pc>>
        /\ UNCHANGED <<now, alwaysOk, dirVars, workerVars, archiveVars, sessionVars,
                       buffer, threadVars, ingestVars, timerFlushes, clientVars>>

\* sample logs: n rows of the given values in turn
LogOf(n, values) ==
    [i \in 1..n |-> Row(i, Fin(values[((i - 1) % Len(values)) + 1], 1), Fin(10, 1))]
\* n rows at 140 bpm, the last k of them at 95 bpm
DipLog(n, k) ==
    [i \in 1..n |-> Row(i, Fin(IF i > n - k THEN 95 ELSE BaselineBpm, 1), Fin(10, 1))]
LogSizes == {0, 14, 29, 30, 174, 342, 599, 600, 601}
AnalysisLogs ==
    {LogOf(n, <<BaselineBpm>>) : n \in LogSizes}
    \cup {LogOf(n, <<138, 140, 142, 141, 139>>) : n \in {120, 600}}
    \cup {DipLog(n, 6) : n \in {30, 120}}
    \cup {DipLog(120, 40), DipLog(600, 100)}
    \cup {LogOf(580, <<140, 150, 165, 150, 140, 130>>)
              \o [i \in 1..20 |-> Row(580 + i, Fin(BaselineBpm, 1), Fin(10, 1))]}

AnalysisInit ==
    /\ InitCommon
    /\ ClientIdle
    /\ pending = EmptyDir
    /\ log \in AnalysisLogs
    \* the sample accepted last is still in the writer's batch
    /\ buffer = <<Row(Len(log) + 1, Fin(140, 1), Fin(10, 1))>>
    /\ model_available \in BOOLEAN
    /\ call = NoCall
    /\ ret = NoRet
    /\ frame = NoFrame
    /\ last_analysis_result = EmptyDict
    /\ analysis_results = <<>>
    /\ active_connections = <<>>
    /\ accepted_sockets = 0
    /\ analysis_history = <<>>
    /\ analyze_pc = [t \in AnalyzeCallers |-> "idle"]
    /\ events = <<>>

\* one pass is followed from its first line to its return; a pass reads nothing
\* an earlier pass has written
AnalysisNext == RunShortTermAnalysis \/ RunFullPredictionAnalysis

AnalysisSpec == AnalysisInit /\ [][AnalysisNext]_vars

\* ------------------------------------------------------------------------
\* Properties of the analysis passes
\* ------------------------------------------------------------------------
EventsOfType(t) == {i \in DOMAIN events : events[i].type = t}
\* the number of rows the pass has counted
RecordsCount == call.args[1]

\* C11: a fast pass over at least 30 rows whose recent-window extraction has
\* found a deceleration has emitted a short_term_alert, of high severity when
\* the deep or the prolonged count is not zero; over fewer than 30 rows it has
\* emitted nothing.
C11_FastPassAlertsOnDeceleration ==
    call.fn = "run_short_term_analysis" =>
        IF RecordsCount < 30 THEN events = <<>>
        ELSE /\ ret.val.decelerations.total >= 1 => EventsOfType("short_term_alert") # {}
             /\ (ret.val.decelerations.deep > 0 \/ ret.val.decelerations.prolonged > 0) =>
                   \E i \in EventsOfType("short_term_alert") : events[i].severity = "high"

\* every row of the log is within 140 +- 2 bpm
FlatAtBaseline ==
    \A i \in DOMAIN log :
        /\ log[i].bpm_value.cls = "fin"
        /\ 138 * log[i].bpm_value.den <= log[i].bpm_value.num
        /\ log[i].bpm_value.num <= 142 * log[i].bpm_value.den

\* C12: a full pass over at least 600 rows that all lie within 140 +- 2 bpm has
\* yielded priority NORMAL and a rule score of at least 8.
C12_FlatSignalIsNormal ==
    (Returned("run_full_prediction_analysis") /\ FlatAtBaseline) =>
        /\ ret.val.action_priority = "NORMAL"
        /\ ret.val.fischer_score >= 8

\* C16: a full pass over fewer than 600 rows has emitted exactly one
\* analysis_info whose percentage is floor(100 * count / 600), below 100, has
\* scored nothing and has emitted no prediction; over 600 rows or more it has
\* scored and emitted exactly one prediction.
C16_ProgressNoticeOrOnePrediction ==
    call.fn = "run_full_prediction_analysis" =>
        IF RecordsCount < 600
        THEN /\ Len(events) = 1
             /\ events[1].type = "analysis_info"
             /\ events[1].progress_percent = (100 * RecordsCount) \div 600
             /\ events[1].progress_percent < 100
             /\ ~ret.done
             /\ last_analysis_result = EmptyDict
    /\ analysis_results = <<>>
    /\ active_connections = <<>>
    /\ accepted_sockets = 0
    /\ analysis_history = <<>>
    /\ analyze_pc = [t \in AnalyzeCallers |-> "idle"]
        ELSE /\ ret.done
             /\ "fetal_wellbeing_index" \in DOMAIN ret.val
             /\ Cardinality(EventsOfType("prediction")) = 1
             /\ EventsOfType("analysis_info") = {}

HighAlertEmitted == \E i \in EventsOfType("alert") : events[i].severity = "high"

\* C17 as stated: a full pass that has produced a composite result has emitted
\* an alert of high severity exactly when the priority is URGENT or CRITICAL or
\* the index is below 70.
C17_HighAlertIffUrgentOrBelow70 ==
    Returned("run_full_prediction_analysis") =>
        (HighAlertEmitted <=>
            \/ ret.val.action_priority \in {"URGENT", "CRITICAL"}
            \/ ret.val.fetal_wellbeing_index < 7000)

\* C17, amended: a full pass that has produced a composite result has emitted
\* one alert exactly when the published index is below 70, and none otherwise;
\* the alert is of high severity when the index is below 50 and of medium
\* severity from 50 up to 70.
C17_AlertBelow70HighBelow50 ==
    Returned("run_full_prediction_analysis") =>
        LET index == ret.val.fetal_wellbeing_index
        IN  /\ Cardinality(EventsOfType("alert")) = IF index < 7000 THEN 1 ELSE 0
            /\ \A i \in EventsOfType("alert") :
                   events[i].severity = IF index < 5000 THEN "high" ELSE "medium"
\* an index between 50 and 70 has raised an alert of medium severity
C17_Witness ==
    /\ Returned("run_full_prediction_analysis")
    /\ ret.val.fetal_wellbeing_index >= 5000
    /\ ret.val.fetal_wellbeing_index < 7000
    /\ ret.val.action_priority = "ATTENTION"
    /\ Len(events) = 2
    /\ events[2].type = "alert"
    /\ events[2].severity = "medium"

\* ------------------------------------------------------------------------
\* The ingestion client (EmulatorClient.run and stop)
\* ------------------------------------------------------------------------
MaxChunkLines == 2

\* a line of the stream by what decoding and parsing make of it: a JSON text
\* json.loads returns a value for, bytes that are not UTF-8, a text that is not
\* JSON, a line of white space, and a JSON text nested so deeply that
\* json.loads raises RecursionError
JsonLine(data) == [kind |-> "json", data |-> data]
OtherLine(kind) == [kind |-> kind, data |-> NoRecord]
Lines ==
    {JsonLine(GoodRecord),
     JsonLine(Record("ok", JsonString(<<"1", "4", "x">>), GoodRecord.uterus)),
     OtherLine("bad_utf8"), OtherLine("bad_json"), OtherLine("blank"), OtherLine("too_deep")}
\* the complete lines a read can add to the buffer
Chunks == UNION {[1..n -> Lines] : n \in 1..MaxChunkLines}
JsonLines(chunk) == Cardinality({i \in DOMAIN chunk : chunk[i].kind = "json"})

ingestContext == <<now, alwaysOk, dirVars, workerVars, archiveVars, sessionVars,
                   log, buffer, threadVars, ingestVars, timerFlushes, scoringVars>>

\* run(): self.running = True, then the first test of the outer loop
Run ==
    /\ cpc = "init"
    /\ running' = TRUE
    /\ cpc' = "connect"
    /\ UNCHANGED <<linebuf, connected, ingestContext>>

\* the test of the outer loop fails: run() returns
RunReturns ==
    /\ cpc = "connect"
    /\ ~running
    /\ cpc' = "done"
    /\ UNCHANGED <<running, linebuf, connected, ingestContext>>

\* connect() returns: on success the buffer starts empty, on failure the
\* client sleeps RECONNECT_DELAY and tests the outer loop again
Connect(ok) ==
    /\ cpc = "connect"
    /\ running
    /\ IF ok
       THEN connected' = TRUE /\ linebuf' = <<>> /\ cpc' = "read"
       ELSE cpc' = "sleep" /\ UNCHANGED <<linebuf, connected>>
    /\ UNCHANGED <<running, ingestContext>>

\* asyncio.sleep(RECONNECT_DELAY) returns
SleepReturns ==
    /\ cpc = "sleep"
    /\ cpc' = "connect"
    /\ UNCHANGED <<running, linebuf, connected, ingestContext>>

\* the test of the inner loop fails: stop() has been called
ReadLoopEnds ==
    /\ cpc = "read"
    /\ ~(running /\ connected)
    /\ cpc' = "closing"
    /\ UNCHANGED <<running, linebuf, connected, ingestContext>>

\* reader.read returns bytes that complete the lines of chunk
ReadChunk(chunk) ==
    /\ cpc = "read"
    /\ running /\ connected
    /\ data_counter + JsonLines(chunk) <= MaxSamples
    /\ linebuf' = chunk
    /\ cpc' = "lines"
    /\ UNCHANGED <<running, connected, ingestContext>>

\* reader.read returns b"" (break), or raises (except Exception: break)
ReadEnds ==
    /\ cpc = "read"
    /\ running /\ connected
    /\ cpc' = "closing"
    /\ UNCHANGED <<running, linebuf, connected, ingestContext>>

\* wait_for raises TimeoutError after 60 s without data
ReadTimeout ==
    /\ cpc = "read"
    /\ running /\ connected
    /\ cpc' = "probe"
    /\ UNCHANGED <<running, linebuf, connected, ingestContext>>

\* the handler of TimeoutError: without a writer nothing is written; otherwise
\* one byte is written and drained, which returns or raises
Probe(ok) ==
    /\ cpc = "probe"
    /\ cpc' = IF ~connected THEN "read" ELSE IF ok THEN "probed" ELSE "probe_failed"
    /\ UNCHANGED <<running, linebuf, connected, ingestContext>>

\* where the handler leaves the inner loop: a probe that raised breaks out of
\* it, a probe that returned falls through to the next test of the loop
AfterProbeAlwaysCloses(outcome) == "closing"
AfterProbe(outcome) == IF outcome = "probe_failed" THEN "closing" ELSE "read"

ProbeDone ==
    /\ cpc \in {"probed", "probe_failed"}
    /\ cpc' = AfterProbe(cpc)
    /\ UNCHANGED <<running, linebuf, connected, ingestContext>>

\* no complete line is left in the buffer: back to the test of the inner loop
LinesDone ==
    /\ cpc = "lines"
    /\ linebuf = <<>>
    /\ cpc' = "read"
    /\ UNCHANGED <<running, linebuf, connected, ingestContext>>

\* the next line is split off the buffer and handled up to the first await
HandleLine ==
    /\ cpc = "lines"
    /\ linebuf # <<>>
    /\ LET line == Head(linebuf)
       IN  CASE line.kind = "json" ->
                  /\ ProcessData(line.data)
                  /\ linebuf' = Tail(linebuf)
                  /\ cpc' = IF Accepts(line.data) THEN "process" ELSE "lines"
             [] line.kind \in {"bad_utf8", "bad_json", "blank"} ->
                  /\ linebuf' = Tail(linebuf)
                  /\ cpc' = "lines"
                  /\ UNCHANGED ingestContext
             [] line.kind = "too_deep" ->
                  /\ linebuf' = <<>>
                  /\ cpc' = "closing"
                  /\ UNCHANGED ingestContext
    /\ UNCHANGED <<running, connected>>

\* process_data returns to the loop over the lines
ProcessDataReturns ==
    /\ cpc = "process"
    /\ ipc = "idle"
    /\ cpc' = "lines"
    /\ UNCHANGED <<running, linebuf, connected, ingestContext>>

\* disconnect() after the inner loop, then the sleep if still running
Disconnect ==
    /\ cpc = "closing"
    /\ connected' = FALSE
    /\ linebuf' = <<>>
    /\ cpc' = IF running THEN "sleep" ELSE "connect"
    /\ UNCHANGED <<running, ingestContext>>

\* stop(): running = False and disconnect()
Stop ==
    /\ running
    /\ running' = FALSE
    /\ connected' = FALSE
    /\ UNCHANGED <<cpc, linebuf, ingestContext>>

ClientControl ==
    \/ Run
    \/ RunReturns
    \/ \E ok \in BOOLEAN : Connect(ok)
    \/ SleepReturns
    \/ ReadLoopEnds
    \/ ReadEnds
    \/ ReadTimeout
    \/ \E ok \in BOOLEAN : Probe(ok)
    \/ ProbeDone
    \/ LinesDone
    \/ HandleLine
    \/ ProcessDataReturns
    \/ Disconnect

ClientStep ==
    \/ ClientControl
    \/ \E chunk \in Chunks : ReadChunk(chunk)

ClientNext ==
    \/ ClientStep
    \/ Stop
    \/ AddCall
    \/ BroadcastCtgData
    \/ TimerFire
    \/ \E t \in {"add", "timer"} : FlushLocked(t)
    \/ \E t \in {"add", "timer"} : FlushWrite(t, TRUE)

ClientSpec == BufferInit /\ [][ClientNext]_vars

\* the scheduling the event loop and the threads give: a coroutine that can
\* go on does, and so does a thread that is not blocked; stop() is the
\* operator's choice and nothing forces it
LiveChunks == {<<JsonLine(GoodRecord)>>, <<OtherLine("bad_json")>>}

ClientLiveStep ==
    \/ ClientControl
    \/ \E chunk \in LiveChunks : ReadChunk(chunk)

\* the thread asyncio.to_thread runs db.add in, and the broadcast after it
AddThreadStep ==
    \/ AddCall
    \/ BroadcastCtgData
    \/ FlushLocked("add")
    \/ FlushWrite("add", TRUE)

FlusherStep ==
    \/ TimerFire
    \/ FlushLocked("timer")
    \/ FlushWrite("timer", TRUE)

ClientLiveNext ==
    \/ ClientLiveStep
    \/ Stop
    \/ AddThreadStep
    \/ FlusherStep

ClientLiveSpec ==
    /\ BufferInit
    /\ [][ClientLiveNext]_vars
    /\ WF_vars(ClientLiveStep)
    /\ WF_vars(AddThreadStep)
    /\ WF_vars(FlushLocked("timer") \/ FlushWrite("timer", TRUE))

\* C18: while the client has not been stopped it never comes to rest: it is
\* always again about to connect or to read, whatever happened in its loop
C18_NeverTerminalWhileRunning ==
    [](running => <>(~running \/ cpc \in {"connect", "read"}))

\* C19 (as stated): the handler of a read timeout always leaves the inner loop
\* to close the connection
C19_TimeoutClosesConnection ==
    [][(cpc \in {"probed", "probe_failed"} /\ connected /\ cpc' # cpc)
         => cpc' = "closing"]_vars

\* C19 (amended): after a read timeout the client writes one byte; it closes
\* the connection when that write fails, and keeps the connection and its
\* buffer and reads again when the write succeeds
C19_TimeoutClosesOnlyOnFailedProbe ==
    [][(cpc \in {"probed", "probe_failed"} /\ cpc' # cpc)
         => /\ cpc = "probe_failed" => cpc' = "closing"
            /\ cpc = "probed" => cpc' = "read"
            /\ connected' = connected
            /\ linebuf' = linebuf]_vars

C19_Witness == cpc = "probed" /\ connected /\ running /\ data_counter > 0

\* a line the stream must drop: not UTF-8, not JSON, or JSON of a wrong shape
Malformed(line) ==
    \/ line.kind \in {"bad_utf8", "bad_json", "too_deep"}
    \/ line.kind = "json" /\ ~Accepts(line.data)

\* C20: handling a malformed line stores and broadcasts nothing, keeps the
\* connection open and goes on with the next line of the buffer
C20_MalformedLineDroppedConnectionKept ==
    [][(cpc = "lines" /\ linebuf # <<>> /\ Malformed(Head(linebuf)) /\ linebuf' # linebuf)
         => /\ cpc' = "lines"
            /\ linebuf' = Tail(linebuf)
            /\ connected' = connected
            /\ ipc' = "idle"
            /\ UNCHANGED <<log, buffer, accepted, forwarded>>]_vars

\* ------------------------------------------------------------------------
\* The writer's transaction and the readers of the sample log
\* ------------------------------------------------------------------------
TxnNext ==
    \/ ReceiveGood
    \/ AddCall
    \/ BroadcastCtgData
    \/ TimerFire
    \/ \E t \in {"add", "timer"} : FlushLocked(t)
    \/ \E t \in {"add", "timer"} : FlushInsert(t)
    \/ \E t \in {"add", "timer"}, ok \in BOOLEAN : FlushWrite(t, ok)

TxnSpec == BufferInit /\ [][TxnNext]_vars

\* C21: what DBManager.get and the passes' SELECT can read is the table as
\* committed: while a batch is being written none of its rows is in it, and
\* every step that changes it appends one whole batch, as it was taken from
\* the in-memory buffer under the lock
C21_ReadersSeeWholeBatches ==
    [][/\ \A t \in {"add", "timer"} :
            tpc[t] = "write" => Range(SqlRows(to_write[t])) \cap Range(log) = {}
       /\ Get(MaxSize)' # Get(MaxSize) =>
            \E t \in {"add", "timer"} :
                /\ tpc[t] = "write"
                /\ to_write[t] # <<>>
                /\ log' = log \o SqlRows(to_write[t])
      ]_vars
\* an earlier batch is in the table and the flusher has inserted one row of a
\* batch of two
C21_Witness ==
    /\ log # <<>>
    /\ tpc["timer"] = "write"
    /\ Len(to_write["timer"]) >= 2
    /\ inserted["timer"] = 1

\* ------------------------------------------------------------------------
\* The outbox: shutdown, file names, the order of end_session's steps
\* ------------------------------------------------------------------------
\* C22: a POST that is in flight ends by returning or by raising (a timeout
\* included); the shutdown does not end it
C22_ShutdownLetsPostFinish ==
    [][wpc = "post" => wpc' \in {"post", "pause"}]_vars

\* the entries of pending that end_session has written
EnqueuedNames(dir) == {n \in DOMAIN dir : dir[n].id \in enqueued}

\* C23: an end_session that enqueues an archive gives it a file name that no
\* archive enqueued before carries, in pending, sent or errors, and that sorts
\* after the name of every enqueued archive still in pending
C23_NamesUniqueAndMonotonic ==
    [][enqueued' # enqueued =>
          \E n \in DOMAIN pending' :
              /\ pending'[n].id \in enqueued' \ enqueued
              /\ n \notin (EnqueuedNames(pending) \cup EnqueuedNames(sent)
                               \cup EnqueuedNames(errors))
              /\ \A m \in EnqueuedNames(pending) : NameLess(m, n)
      ]_vars

\* C24: a step of end_session leaves the worker where it is and issues no
\* POST; if it changes the sample log or the active session, the archive it
\* has built is in pending after the step; if it enqueues nothing (writing the
\* archive failed, or there was nothing to archive), the sample log, the
\* clinical data and the active session id are as before
C24_ArchiveWrittenBeforeClearing ==
    [][(\E url \in RequestUrls, writeOk \in BOOLEAN : EndSession(url, writeOk)) =>
          /\ UNCHANGED workerVars
          /\ (log' # log \/ current_session_id' # current_session_id) =>
                \E n \in DOMAIN pending' :
                    /\ pending'[n].id \in enqueued' \ enqueued
                    /\ pending'[n].ctg_records = Get(MaxSize)
          /\ enqueued' = enqueued => UNCHANGED <<log, sessionVars>>
      ]_vars
\* writing the archive has failed, leaving an unreadable file in pending, and
\* the sample log still holds its row
C24_Witness ==
    /\ endResponse = "error"
    /\ enqueued = {}
    /\ \E n \in DOMAIN pending : pending[n].kind = "corrupt"
    /\ log # <<>>
    /\ current_session_id = "default"

\* ------------------------------------------------------------------------
\* The outbox worker: failures on one entry
\* ------------------------------------------------------------------------
\* the file cannot be opened or does not hold JSON
Unreadable(n) == n \notin DOMAIN pending \/ pending[n].kind = "corrupt"
\* the entries of files after its first occurrence of n
After(files, n) ==
    LET i == CHOOSE k \in 1..Len(files) : files[k] = n /\ \A j \in 1..(k - 1) : files[j] # n
    IN  SubSeq(files, i + 1, Len(files))

\* C28: when the worker comes to an entry it cannot read, or the POST of an
\* entry raises, the entry stays in pending as it is, the worker is in its
\* 2 s pause with the entries after it still to visit, and nothing but the
\* shutdown ends the worker; the pause after the last entry leads to the sleep
\* before the next cycle
C28_EntryFailureIsIsolated ==
    [][/\ \A n \in Names :
            LET files == IF wpc = "sleep" THEN SortedNames(DOMAIN pending) ELSE wlist
            IN  ( /\ WorkerCycle \/ WorkerPause
                  /\ n \in Examined(files, wlist')
                  /\ Unreadable(n) )
                => /\ n \in DOMAIN pending => (n \in DOMAIN pending' /\ pending'[n] = pending[n])
                   /\ wpc' = "pause"
                   /\ wlist' = After(files, n)
       /\ (PostReturns /\ wstatus'.kind \in PostErrors)
            => (wpc' = "pause" /\ wlist' = wlist /\ UNCHANGED dirVars)
       /\ (wpc = "pause" /\ wlist = <<>> /\ WorkerPause) => wpc' = "sleep"
       /\ (wpc # "cancelled" /\ wpc' = "cancelled") => WorkerCancel
      ]_vars
\* an unreadable entry is still in pending and an entry that sorts after it has
\* been delivered
C28_Witness ==
    \E n \in DOMAIN pending :
        /\ pending[n].kind = "corrupt"
        /\ \E m \in DOMAIN sent : NameLess(n, m)

\* C30: the body of a POST is the document read from the entry with the
\* endpoint field taken out of its metadata and everything else as stored;
\* issuing the POST leaves the stored entry as it is; after a POST that did not
\* succeed the areas are unchanged, so the entry still names its endpoint; and
\* the worker, coming to a pending entry that names an endpoint, POSTs it and
\* does not move it
C30_BodyWithoutEndpointEntryUntouched ==
    [][/\ wpc = "post" =>
            /\ wbody = [wdoc EXCEPT !.kind = "absent"]
            /\ wdoc.kind = "url"
       /\ \A n \in Names :
            /\ (PostIssued /\ wcur' = n) =>
                  (n \in DOMAIN pending' /\ pending'[n] = pending[n] /\ wdoc' = pending[n])
            /\ ( /\ n \in DOMAIN pending /\ pending[n].kind = "url"
                 /\ \/ WorkerCycle /\ n \in Examined(SortedNames(DOMAIN pending), wlist')
                    \/ WorkerPause /\ n \in Examined(wlist, wlist') )
               => (wpc' = "post" /\ wcur' = n /\ ~Enters(n, errors, errors'))
       /\ (PostReturns /\ ~IsSuccess(wstatus')) =>
            /\ UNCHANGED dirVars
            /\ wcur \in DOMAIN pending => pending'[wcur].kind \in {"url", "empty", "corrupt"}
      ]_vars
\* the POST of an entry has failed before and is in flight again: the body
\* lacks the endpoint and the stored entry names it
C30_Witness ==
    /\ wpc = "post"
    /\ wcur \in retried
    /\ wbody.kind = "absent" /\ wbody.ctg_records # <<>>
    /\ wcur \in DOMAIN pending /\ pending[wcur].kind = "url"

\* ------------------------------------------------------------------------
\* The risk estimate with and without the classifier
\* ------------------------------------------------------------------------
\* C25: _predict_with_ml always returns an estimate with a probability in
\* [0,1]; without a loaded classifier, or when the classifier or the scaler
\* raises, it is the result of the rule estimator, with method expert_rules and
\* the weights 0.7 and 0.3; when the classifier returns a probability, it is
\* that probability with method ml_model and the weights 0.6 and 0.2
C25_RulesWheneverClassifierFails ==
    Returned("_predict_with_ml") =>
        LET features == call.args[1]
            available == call.args[2]
            outcome == call.args[3]
        IN  /\ ret.val.hypoxia_probability \in 0..100
            /\ IF ~available \/ outcome = MlRaises
               THEN /\ ret.val = _predict_with_rules(features)
                    /\ ret.val.method = "expert_rules"
                    /\ rule_weight(ret.val) = 70 /\ fischer_weight(ret.val) = 30
               ELSE /\ ret.val.method = "ml_model"
                    /\ ret.val.hypoxia_probability = outcome.p
                    /\ rule_weight(ret.val) = 60 /\ fischer_weight(ret.val) = 20
\* a loaded classifier has raised on the feature vector and the rule estimator
\* has answered
C25_Witness ==
    /\ Returned("_predict_with_ml")
    /\ call.args[2] = TRUE /\ call.args[3] = MlRaises
    /\ ret.val.method = "expert_rules"
    /\ ret.val.hypoxia_probability = 100

\* ------------------------------------------------------------------------
\* Feature extraction on short windows
\* ------------------------------------------------------------------------
\* longest window handed to extract_features here
MaxWindow == 3
WindowValues == {100, 120, 140, 160, 180}
ShortWindows == UNION {[1..n -> WindowValues] : n \in 0..MaxWindow}

\* np.min: a reduction without identity, which raises on an array of size 0
np_min(a) ==
    IF Len(a) = 0 THEN [raised |-> "ValueError", value |-> 0]
    ELSE [raised |-> "none", value |-> Lowest(a)]

\* CTGFeatureExtractor.extract_features as a call: the feature set, or the
\* exception that leaves it. On a window of length 0 signal_loss_ratio is 0 and
\* _calculate_baseline returns 140, np.mean and np.std give nan with a warning,
\* and np.min(fhr_clean), the next entry of the dictionary, raises.
ExtractFeaturesOutcomes(fhr, window_type) ==
    IF np_min(fhr).raised # "none"
    THEN {[raised |-> np_min(fhr).raised, features |-> EmptyDict]}
    ELSE {[raised |-> "none", features |-> f] : f \in extract_features(fhr, window_type)}

ExtractCalls ==
    {[fn |-> "extract_features", args |-> <<w, t>>] : w \in ShortWindows, t \in {"short", "long"}}

ExtractInit ==
    /\ InitCommon
    /\ buffer = <<>>
    /\ ClientIdle
    /\ log = <<>>
    /\ pending = EmptyDir
    /\ model_available = FALSE
    /\ last_analysis_result = EmptyDict
    /\ analysis_results = <<>>
    /\ active_connections = <<>>
    /\ accepted_sockets = 0
    /\ analysis_history = <<>>
    /\ analyze_pc = [t \in AnalyzeCallers |-> "idle"]
    /\ events = <<>>
    /\ ret = NoRet
    /\ frame = NoFrame
    /\ call \in ExtractCalls

CallExtractFeatures ==
    /\ call.fn = "extract_features"
    /\ ~ret.done
    /\ \E outcome \in ExtractFeaturesOutcomes(call.args[1], call.args[2]) :
          ret' = [done |-> TRUE, val |-> outcome]
    /\ UNCHANGED <<call, frame, frameContext>>

ExtractSpec == ExtractInit /\ [][CallExtractFeatures]_vars

\* the FeatureSet of neutral defaults: baseline 140, every other statistic 0
NeutralFeatures == Features(0, 140, 0, 0, 0, 0, 0)

\* C26: extract_features on a window of length 0 returns the FeatureSet of
\* neutral defaults and raises nothing
C26_EmptyWindowGivesNeutralDefaults ==
    (Returned("extract_features") /\ Len(call.args[1]) = 0) =>
        ret.val = [raised |-> "none", features |-> NeutralFeatures]

\* ------------------------------------------------------------------------
\* The passes and the samples
\* ------------------------------------------------------------------------
\* C29: a fast pass or a full pass leaves the rows of the sample log, the
\* writer's in-memory batch and the batches being written as they are
C29_PassesLeaveSamplesAlone ==
    [][call' # call => UNCHANGED <<log, buffer, to_write>>]_vars
\* a full pass has scored 600 rows and saved its result while one accepted
\* sample waited in the writer's batch
C29_Witness ==
    /\ Returned("run_full_prediction_analysis")
    /\ Len(analysis_results) = 1
    /\ Len(log) >= MIN_RECORDS_FOR_FULL_ANALYSIS
    /\ buffer # <<>>

\* ------------------------------------------------------------------------
\* ConnectionManager: connect, disconnect, broadcast
\* ------------------------------------------------------------------------
\* number of websockets that connect
MaxSockets == 3

broadcastContext == <<now, alwaysOk, dirVars, workerVars, archiveVars, sessionVars,
                      log, buffer, threadVars, ingestVars, timerFlushes,
                      model_available, last_analysis_result, analysis_results, events,
                      analysis_history, analyze_pc, clientVars>>

Without(q, S) == SelectSeq(q, LAMBDA x : x \notin S)

\* websocket_endpoint, manager.connect: accept, then append under the lock
WsConnect ==
    /\ accepted_sockets < MaxSockets
    /\ accepted_sockets' = accepted_sockets + 1
    /\ active_connections' = Append(active_connections, accepted_sockets + 1)
    /\ UNCHANGED <<call, ret, frame, broadcastContext>>

\* websocket_endpoint's except clauses, manager.disconnect: the peer has gone
WsDisconnect(websocket) ==
    /\ websocket \in Range(active_connections)
    /\ active_connections' = Without(active_connections, {websocket})
    /\ UNCHANGED <<call, ret, frame, accepted_sockets, broadcastContext>>

\* broadcast up to its first send: nothing to do without connections;
\* otherwise the message is serialized and the list copied under the lock
BroadcastCopy ==
    /\ call = NoCall \/ ret.done
    /\ call' = [fn |-> "broadcast", args |-> <<>>]
    /\ IF active_connections = <<>>
       THEN /\ ret' = [done |-> TRUE, val |-> <<>>]
            /\ frame' = NoFrame
       ELSE /\ ret' = NoRet
            /\ frame' = [pc |-> "send", connections |-> active_connections, i |-> 1,
                         disconnected |-> <<>>, delivered |-> {}]
    /\ UNCHANGED <<active_connections, accepted_sockets, broadcastContext>>

\* the locals after send_text has raised, if the exception left the loop
SendFailedLeavesLoop(f) ==
    [f EXCEPT !.disconnected = Append(@, f.connections[f.i]), !.i = Len(f.connections) + 1]
\* the locals after send_text has raised: the connection is noted and the
\* loop goes on
SendFailed(f) ==
    [f EXCEPT !.disconnected = Append(@, f.connections[f.i]), !.i = @ + 1]

\* await connection.send_text(json_message) returns or raises; a websocket
\* that has been disconnected is closed and cannot be sent to
BroadcastSend(ok) ==
    /\ call.fn = "broadcast" /\ frame.pc = "send"
    /\ frame.i <= Len(frame.connections)
    /\ ok => frame.connections[frame.i] \in Range(active_connections)
    /\ frame' = IF ok
                THEN [frame EXCEPT !.delivered = @ \cup {frame.connections[frame.i]},
                                   !.i = @ + 1]
                ELSE SendFailed(frame)
    /\ UNCHANGED <<call, ret, active_connections, accepted_sockets, broadcastContext>>

\* the loop over disconnected: each manager.disconnect removes its websocket
\* if it is still in the list; no step of it suspends, the lock being free
BroadcastRemove ==
    /\ call.fn = "broadcast" /\ frame.pc = "send"
    /\ frame.i > Len(frame.connections)
    /\ active_connections' = Without(active_connections, Range(frame.disconnected))
    /\ frame' = [frame EXCEPT !.pc = "done"]
    /\ ret' = [done |-> TRUE, val |-> <<>>]
    /\ UNCHANGED <<call, accepted_sockets, broadcastContext>>

BroadcastNext ==
    \/ WsConnect
    \/ \E websocket \in 1..MaxSockets : WsDisconnect(websocket)
    \/ BroadcastCopy
    \/ \E ok \in BOOLEAN : BroadcastSend(ok)
    \/ BroadcastRemove

BroadcastInit ==
    /\ InitCommon
    /\ buffer = <<>>
    /\ ScoringIdle
    /\ ClientIdle
    /\ log = <<>>
    /\ pending = EmptyDir

BroadcastSpec == BroadcastInit /\ [][BroadcastNext]_vars

\* C27: when a broadcast ends, every connection that was active when it began
\* has either received the event or is noted as failed, none both; the
\* broadcast takes out of the active set exactly the connections it noted as
\* failed, and its sends take out none; connections that arrive or leave
\* during the broadcast do not change this
C27_BroadcastReachesAllDropsFailed ==
    [][/\ frame'.pc = "done" =>
            /\ frame'.delivered \cup Range(frame'.disconnected) = Range(frame'.connections)
            /\ frame'.delivered \cap Range(frame'.disconnected) = {}
            /\ Range(active_connections') \cap Range(frame'.disconnected) = {}
       /\ (call.fn = "broadcast" /\ frame.pc = "send" /\ frame' # frame) =>
            IF frame'.pc = "done"
            THEN /\ Range(active_connections') =
                        Range(active_connections) \ Range(frame.disconnected)
                 /\ frame'.delivered = frame.delivered
            ELSE UNCHANGED active_connections
      ]_vars
\* the first connection failed and was dropped, the second received the event,
\* and a third, which connected during the broadcast, is active
C27_Witness ==
    /\ frame.pc = "done"
    /\ frame.connections = <<1, 2>>
    /\ frame.disconnected = <<1>>
    /\ frame.delivered = {2}
    /\ active_connections = <<2, 3>>

\* ------------------------------------------------------------------------
\* The contents of a session archive
\* ------------------------------------------------------------------------
\* session_info.start_time: the timestamp of ctg_data_formatted[0]
StartRecord(ctg_data_formatted) == ctg_data_formatted[1]

OldestFirst(records) ==
    \A i, j \in 1..Len(records) : i < j => records[i].data_point < records[j].data_point

\* C31: every archive in the queue lists its samples oldest first, and its
\* start time is taken from the earliest of them
C31_ArchiveOldestFirst ==
    \A n \in DOMAIN pending :
        pending[n].ctg_records # <<>> =>
            /\ OldestFirst(pending[n].ctg_records)
            /\ \A i \in 1..Len(pending[n].ctg_records) :
                  StartRecord(pending[n].ctg_records).data_point
                      <= pending[n].ctg_records[i].data_point

\* ------------------------------------------------------------------------
\* Pattern detection over a short window: deep decelerations
\* ------------------------------------------------------------------------
\* a short window: baseline, then a dip made of a shallow, a deep and a shallow
\* stretch, then (after baseline samples or at once) a second deep stretch
DeepWindow(a, b, c, sep, d) ==
    LET lead == 5
        rest == SHORT_WINDOW_SAMPLES - (lead + a + b + c + sep + d)
    IN  Compact(<<[v |-> BaselineBpm, n |-> lead], [v |-> 124, n |-> a],
                  [v |-> 95, n |-> b], [v |-> 124, n |-> c],
                  [v |-> BaselineBpm, n |-> sep], [v |-> 95, n |-> d],
                  [v |-> BaselineBpm, n |-> rest]>>)
DeepWindows ==
    {DeepWindow(a, b, c, sep, d) :
         a \in {0, 10}, b \in {0, 1, 19, 20}, c \in {0, 1}, sep \in {0, 2}, d \in {0, 20}}

DeepInit ==
    /\ InitCommon
    /\ buffer = <<>>
    /\ ClientIdle
    /\ log = <<>>
    /\ pending = EmptyDir
    /\ model_available = FALSE
    /\ last_analysis_result = EmptyDict
    /\ analysis_results = <<>>
    /\ active_connections = <<>>
    /\ accepted_sockets = 0
    /\ analysis_history = <<>>
    /\ analyze_pc = [t \in AnalyzeCallers |-> "idle"]
    /\ events = <<>>
    /\ ret = NoRet
    /\ \E w \in DeepWindows :
          call = [fn |-> "_detect_patterns",
                  args |-> <<w, BaselineBpm, SHORT_PATTERN_MIN_DURATION,
                             SHORT_PROLONGED_DURATION>>]
    /\ frame = SegmentsFrame("accel", <<>>)

DeepSpec == DeepInit /\ [][PatternNext]_vars

\* the maximal stretches below the threshold, each with its length and its
\* lowest sample
RECURSIVE Dips(_, _, _)
Dips(runs, threshold, open) ==
    LET closed == IF open.n > 0 THEN <<open>> ELSE <<>>
    IN  IF runs = <<>> THEN closed
        ELSE IF Head(runs).v < threshold
             THEN Dips(Tail(runs), threshold,
                       [n |-> open.n + Head(runs).n,
                        v |-> IF open.n = 0 \/ Head(runs).v < open.v
                              THEN Head(runs).v ELSE open.v])
             ELSE closed \o Dips(Tail(runs), threshold, [n |-> 0, v |-> 0])

\* C32 as stated: deep_decelerations_count is the number of maximal stretches
\* below baseline - 30 that last at least the minimum pattern duration
C32_DeepCountIsLongDeepRuns ==
    Returned("_detect_patterns") =>
        LET ls == DipLengths(call.args[1], call.args[2] - 30, 0)
        IN  ret.val.deep_decelerations_count =
                Cardinality({k \in DOMAIN ls : ls[k] >= call.args[3]})

\* C32, amended: deep_decelerations_count is the number of decelerations
\* (maximal stretches below baseline - 15 that last at least the minimum
\* pattern duration) whose lowest sample is below baseline - 30, however long
\* the part below baseline - 30 lasts
C32_DeepCountIsDecelerationsReachingDeep ==
    Returned("_detect_patterns") =>
        LET ds == Dips(call.args[1], call.args[2] - 15, [n |-> 0, v |-> 0])
        IN  ret.val.deep_decelerations_count =
                Cardinality({k \in DOMAIN ds : /\ ds[k].n >= call.args[3]
                                               /\ ds[k].v < call.args[2] - 30})
\* a deceleration of 30 samples with 19 samples below baseline - 30 was
\* counted as deep
C32_Witness ==
    /\ Returned("_detect_patterns")
    /\ call.args[3] = SHORT_PATTERN_MIN_DURATION
    /\ \E k \in DOMAIN call.args[1] :
          /\ k + 2 \in DOMAIN call.args[1]
          /\ call.args[1][k] = [v |-> 124, n |-> 10]
          /\ call.args[1][k + 1] = [v |-> 95, n |-> 19]
          /\ call.args[1][k + 2] = [v |-> 124, n |-> 1]
    /\ ret.val.deep_decelerations_count = 1

\* ------------------------------------------------------------------------
\* Prolonged decelerations in the analysed data
\* ------------------------------------------------------------------------
\* a median of the values
MedianOf(fhr) ==
    CHOOSE m \in Range(fhr) :
        /\ 2 * Cardinality({i \in DOMAIN fhr : fhr[i] < m}) <= Len(fhr)
        /\ 2 * Cardinality({i \in DOMAIN fhr : fhr[i] > m}) <= Len(fhr)
\* the rows hold a stretch more than 15 bpm under their median that lasts the
\* prolonged duration of a short window (30 s, one row a second) or longer
HasProlongedDeceleration(rows) ==
    LET fhr == Fhr(rows)
        seconds == SHORT_PROLONGED_DURATION \div TARGET_SAMPLING_RATE
        decel_threshold == MedianOf(fhr) - 15
    IN  /\ Len(fhr) >= seconds
        /\ \E i \in 1..(Len(fhr) - seconds + 1) :
              \A k \in i..(i + seconds - 1) : fhr[k] < decel_threshold

\* C33: a pass over data that holds a deceleration of the prolonged duration
\* reports it: the full pass by a finding of type prolonged_deceleration, the
\* fast pass by a prolonged count above zero
C33_ProlongedDecelerationReported ==
    (ret.done /\ HasProlongedDeceleration(get_data_from_db(600))) =>
        /\ call.fn = "run_full_prediction_analysis" =>
              \E i \in DOMAIN ret.val.detected_patterns :
                  ret.val.detected_patterns[i].type = "prolonged_deceleration"
        /\ call.fn = "run_short_term_analysis" =>
              ret.val.decelerations.prolonged > 0

\* ------------------------------------------------------------------------
\* The clinical rule score
\* ------------------------------------------------------------------------
Interpretation(total) ==
    IF total >= 8 THEN "Normal" ELSE IF total \in {6, 7} THEN "Suspicious" ELSE "Pathological"
SubScoresInRange(scores) == \A k \in DOMAIN scores : scores[k] \in {0, 1, 2}

\* C34 as stated: the rule score is the sum of the sub-scores for baseline,
\* variability, accelerations and decelerations, each 0, 1 or 2; it lies in
\* 0..10 and reads Normal from 8, Suspicious at 6 and 7, Pathological below 6
C34_ScoreIsSumOfFourSubScores ==
    Returned("calculate") =>
        LET scores == ret.val.detailed_scores
        IN  /\ SubScoresInRange(scores)
            /\ ret.val.total_score = scores.baseline + scores.variability
                                       + scores.accelerations + scores.decelerations
            /\ ret.val.total_score \in 0..10
            /\ ret.val.interpretation = Interpretation(ret.val.total_score)

\* C34, amended: the rule score is the sum of five sub-scores, each 0, 1 or 2:
\* baseline, variability, accelerations, decelerations and movements, the last
\* always equal to the accelerations sub-score; it lies in 0..10 and reads
\* Normal from 8, Suspicious at 6 and 7, Pathological below 6
C34_ScoreIsSumOfFiveSubScores ==
    Returned("calculate") =>
        LET scores == ret.val.detailed_scores
        IN  /\ SubScoresInRange(scores)
            /\ scores.movements = scores.accelerations
            /\ ret.val.total_score = scores.baseline + scores.variability
                                       + scores.accelerations + scores.decelerations
                                       + scores.movements
            /\ ret.val.total_score \in 0..10
            /\ ret.val.interpretation = Interpretation(ret.val.total_score)
\* two accelerations have been scored twice: the other sub-scores sum to 3 and
\* the total of 7 reads Suspicious
C34_Witness ==
    /\ Returned("calculate")
    /\ call.args[1].accelerations_count = 2
    /\ ret.val.detailed_scores.baseline + ret.val.detailed_scores.variability
           + ret.val.detailed_scores.decelerations = 3
    /\ ret.val.total_score = 7
    /\ ret.val.interpretation = "Suspicious"

\* ------------------------------------------------------------------------
\* The score history under interleaved calls of analyze()
\* ------------------------------------------------------------------------
\* number of full results the callers produce between them
MaxAnalyses == 102

historyContext == <<now, alwaysOk, dirVars, workerVars, archiveVars, sessionVars,
                    log, buffer, threadVars, ingestVars, timerFlushes,
                    call, ret, frame, model_available, events,
                    active_connections, accepted_sockets, clientVars>>

\* how a call of analyze() goes on once it has its data: fewer than 15 rows,
\* no fhr column, a fast pass, a full pass
AnalyzeOutcomes == {"too_few", "bad_format", "short_term", "full"}
\* the result of a full pass
FullResult ==
    [type |-> "analysis_update", analysis_type |-> "full",
     fetal_wellbeing_index |-> 8500, action_priority |-> "NORMAL"]
\* datetime.now() of the next entry: later than that of every entry before
NextStamp(history) ==
    IF history = <<>> THEN 1 ELSE history[Len(history)].timestamp + 1

\* analyze() is called and waits for get_data_from_db
AnalyzeCall(t) ==
    /\ analyze_pc[t] \notin {"fetch", "save"}
    /\ NextStamp(analysis_history) <= MaxAnalyses
    /\ analyze_pc' = [analyze_pc EXCEPT ![t] = "fetch"]
    /\ UNCHANGED <<analysis_history, last_analysis_result, analysis_results, historyContext>>

\* analyze() from the return of get_data_from_db to its next await: an error
\* result or the result of a fast pass is returned at once; a full pass sets
\* last_analysis_result, extends the history and waits for save_analysis_result
AnalyzeResume(t, outcome) ==
    /\ analyze_pc[t] = "fetch"
    /\ IF outcome \in {"too_few", "bad_format"}
       THEN /\ analyze_pc' = [analyze_pc EXCEPT ![t] = "error"]
            /\ UNCHANGED <<analysis_history, last_analysis_result>>
       ELSE IF outcome = "short_term"
       THEN /\ analyze_pc' = [analyze_pc EXCEPT ![t] = "returned"]
            /\ UNCHANGED <<analysis_history, last_analysis_result>>
       ELSE /\ analyze_pc' = [analyze_pc EXCEPT ![t] = "save"]
            /\ last_analysis_result' = FullResult
            /\ analysis_history' =
                  AppendToHistory(analysis_history,
                                  HistoryEntry(NextStamp(analysis_history), FullResult))
    /\ UNCHANGED <<analysis_results, historyContext>>

\* save_analysis_result has inserted the row; analyze() returns the result
AnalyzeSaved(t) ==
    /\ analyze_pc[t] = "save"
    /\ analysis_results' =
          save_analysis_result(Tables(log, analysis_results), FullResult).analysis_results
    /\ analyze_pc' = [analyze_pc EXCEPT ![t] = "returned"]
    /\ UNCHANGED <<analysis_history, last_analysis_result, historyContext>>

HistoryNext ==
    \/ \E t \in AnalyzeCallers : AnalyzeCall(t)
    \/ \E t \in AnalyzeCallers, outcome \in AnalyzeOutcomes : AnalyzeResume(t, outcome)
    \/ \E t \in AnalyzeCallers : AnalyzeSaved(t)

HistoryInit ==
    /\ InitCommon
    /\ buffer = <<>>
    /\ ScoringIdle
    /\ ClientIdle
    /\ log = <<>>
    /\ pending = EmptyDir

HistorySpec == HistoryInit /\ [][HistoryNext]_vars

\* C35: whichever way the calls of analyze() interleave, the history never
\* holds more than 100 entries, its entries are consecutive results in the
\* order they were produced, a new result is added at the end and costs the
\* oldest entry only when 100 are held; a call that ends in an error result
\* changes neither the history nor the table of saved results
C35_HistoryBoundedErrorsAddNothing ==
    [][/\ Len(analysis_history') <= 100
       /\ \A i \in 1..(Len(analysis_history') - 1) :
              analysis_history'[i + 1].timestamp = analysis_history'[i].timestamp + 1
       /\ analysis_history' # analysis_history =>
              /\ analysis_history'[Len(analysis_history')].timestamp =
                     NextStamp(analysis_history)
              /\ Len(analysis_history') = Min(100, Len(analysis_history) + 1)
       /\ \A t \in AnalyzeCallers :
              (analyze_pc[t] = "fetch" /\ analyze_pc'[t] = "error") =>
                  UNCHANGED <<analysis_history, analysis_results>>
      ]_vars
\* 102 results have been produced and the two oldest dropped; one caller has
\* just got an error result while the other's result is being saved
C35_Witness ==
    /\ Len(analysis_history) = 100
    /\ analysis_history[1].timestamp = 3
    /\ analyze_pc["api"] = "error"
    /\ analyze_pc["ingest"] = "save"
    /\ Len(analysis_results) = 101

\* ------------------------------------------------------------------------
\* The inner loop of EmulatorClient.run: from read chunks to lines
\* ------------------------------------------------------------------------
\* length of the byte stream of a connection
MaxStream == 4

\* the bytes of the stream: a digit, a blank, the newline, a byte that is not
\* UTF-8, and "D", which stands for an opening of brackets nested so deeply
\* that json.loads raises RecursionError
StreamBytes == {"1", " ", "nl", "x", "D"}
Streams == UNION {[1..n -> StreamBytes] : n \in 0..MaxStream}

\* line.decode('utf-8')
Decodes(line) == "x" \notin Range(line)
\* json.loads(json_str) for a stripped, non-empty text over the digit, the
\* blank and "D"
json_loads(json_str) ==
    IF Head(json_str) = "D" THEN [kind |-> "RecursionError", value |-> JsonNull]
    ELSE IF AllDigits(json_str)
    THEN [kind |-> "value", value |-> JsonNumber(Fin(DigitsValue(json_str), 1))]
    ELSE [kind |-> "JSONDecodeError", value |-> JsonNull]

FirstNewline(buf) ==
    CHOOSE k \in DOMAIN buf :
        buf[k] = "nl" /\ \A j \in 1..(k - 1) : buf[j] # "nl"

\* line, buffer = buffer.split(b"\n", 1)
SplitOnce(buf) ==
    LET k == FirstNewline(buf)
    IN  [line |-> SubSeq(buf, 1, k - 1), buffer |-> SubSeq(buf, k + 1, Len(buf))]

\* while b"\n" in buffer: .. ; handed are the values passed to process_data;
\* an exception other than the two caught per line leaves the loop
RECURSIVE SplitLoop(_, _)
SplitLoop(buf, handed) ==
    IF "nl" \notin Range(buf)
    THEN [buffer |-> buf, handed |-> handed, raised |-> FALSE]
    ELSE LET s == SplitOnce(buf)
         IN  IF s.line = <<>> \/ ~Decodes(s.line) \/ Strip(s.line) = <<>>
             THEN SplitLoop(s.buffer, handed)
             ELSE LET v == json_loads(Strip(s.line))
                  IN  IF v.kind = "value" THEN SplitLoop(s.buffer, Append(handed, v.value))
                      ELSE IF v.kind = "JSONDecodeError" THEN SplitLoop(s.buffer, handed)
                      ELSE [buffer |-> s.buffer, handed |-> handed, raised |-> TRUE]

splitContext == <<now, alwaysOk, dirVars, workerVars, archiveVars, sessionVars,
                  log, buffer, threadVars, ingestVars, timerFlushes,
                  model_available, last_analysis_result, analysis_results, events,
                  active_connections, accepted_sockets, analysis_history, analyze_pc,
                  clientVars>>

\* reader.read returns the next n bytes; they are added to the buffer and the
\* complete lines are taken off it
ReadSplit(n) ==
    /\ call.fn = "run" /\ frame.pc = "read"
    /\ frame.received + n <= Len(call.args[1])
    /\ LET chunk == SubSeq(call.args[1], frame.received + 1, frame.received + n)
           r == SplitLoop(frame.buffer \o chunk, frame.handed)
       IN  frame' = [pc |-> IF r.raised THEN "closed" ELSE "read",
                     buffer |-> r.buffer, received |-> frame.received + n,
                     handed |-> r.handed]
    /\ UNCHANGED <<call, ret, splitContext>>

\* reader.read returns b"": the inner loop ends and the buffer is dropped
StreamEnds ==
    /\ call.fn = "run" /\ frame.pc = "read"
    /\ frame' = [frame EXCEPT !.pc = "closed"]
    /\ UNCHANGED <<call, ret, splitContext>>

SplitNext == (\E n \in 1..MaxStream : ReadSplit(n)) \/ StreamEnds

SplitInit ==
    /\ InitCommon
    /\ buffer = <<>>
    /\ ClientIdle
    /\ log = <<>>
    /\ pending = EmptyDir
    /\ model_available = FALSE
    /\ last_analysis_result = EmptyDict
    /\ analysis_results = <<>>
    /\ active_connections = <<>>
    /\ accepted_sockets = 0
    /\ analysis_history = <<>>
    /\ analyze_pc = [t \in AnalyzeCallers |-> "idle"]
    /\ events = <<>>
    /\ ret = NoRet
    /\ \E stream \in Streams : call = [fn |-> "run", args |-> <<stream>>]
    /\ frame = [pc |-> "read", buffer |-> <<>>, received |-> 0, handed |-> <<>>]

SplitSpec == SplitInit /\ [][SplitNext]_vars

\* the values of the newline-terminated lines of a stream, in order: line by
\* line from position i on, the current line having begun at position start
RECURSIVE LineValues(_, _, _)
LineValues(stream, i, start) ==
    IF i > Len(stream) THEN <<>>
    ELSE IF stream[i] # "nl" THEN LineValues(stream, i + 1, start)
    ELSE LET line == SubSeq(stream, start, i - 1)
             text == Strip(line)
             value == IF Decodes(line) /\ text # <<>> /\ json_loads(text).kind = "value"
                      THEN <<json_loads(text).value>> ELSE <<>>
         IN  value \o LineValues(stream, i + 1, i + 1)

\* C36: whatever the chunks, the values handed to processing are those of the
\* newline-terminated lines of the bytes received so far, each once and in
\* order, and what is kept in the buffer is the unterminated rest
C36_HandedDependsOnlyOnStream ==
    call.fn = "run" =>
        LET received == SubSeq(call.args[1], 1, frame.received)
        IN  /\ frame.handed = LineValues(received, 1, 1)
            /\ frame.pc = "read" =>
                  /\ "nl" \notin Range(frame.buffer)
                  /\ \E k \in 0..Len(received) :
                        /\ frame.buffer = SubSeq(received, k + 1, Len(received))
                        /\ k > 0 => received[k] = "nl"

\* ------------------------------------------------------------------------
\* process_data, step 7: the analysis passes started by elapsed time
\* ------------------------------------------------------------------------
\* the clock of time.time() advances in steps of TickSeconds, up to
\* MaxTicks steps
TickSeconds == 10
MaxTicks == 12
\* EmulatorClient.__init__
short_analysis_interval == 10
full_analysis_interval == 120

\* current_time - self.last_..._analysis_time >= self...._analysis_interval
DueLater(current_time, last_time, interval) == current_time - last_time > interval
Due(current_time, last_time, interval) == current_time - last_time >= interval

\* a record process_data turns down: its bpm value is above 201
HighRecord == Record("ok", JsonNumber(Fin(2011, 10)), JsonNumber(Fin(10, 1)))

scheduleContext == <<now, alwaysOk, dirVars, workerVars, archiveVars, sessionVars,
                     log, buffer, threadVars, timerFlushes,
                     call, ret, model_available, last_analysis_result,
                     analysis_results, events, active_connections, accepted_sockets,
                     analysis_history, analyze_pc, clientVars>>

\* time passes: at any point, also while a pass runs or add() waits
ClockTick ==
    /\ frame.time < MaxTicks * TickSeconds
    /\ frame' = [frame EXCEPT !.time = @ + TickSeconds]
    /\ UNCHANGED <<scheduleContext, ingestVars>>

\* the line loop awaits process_data for the next record
ReceiveRecord ==
    /\ data_counter < MaxSamples
    /\ \E data \in {GoodRecord, HighRecord} : ProcessData(data)
    /\ UNCHANGED clientVars

\* the second test of step 7, with the current_time read before the fast pass
FullCheck(current_time) ==
    IF Due(current_time, frame.last_full_analysis_time, full_analysis_interval)
    THEN /\ ipc' = "full"
         /\ frame' = [frame EXCEPT !.current_time = current_time,
                                   !.last_full_analysis_time = current_time]
    ELSE /\ ipc' = "idle"
         /\ frame' = [frame EXCEPT !.current_time = 0]

\* process_data after db.add has returned: the ctg_data broadcast, then
\* current_time = time.time() and the first test of step 7
BroadcastAndSchedule ==
    /\ ipc = "bcast"
    /\ forwarded' = forwarded + 1
    /\ IF Due(frame.time, frame.last_short_analysis_time, short_analysis_interval)
       THEN /\ ipc' = "short"
            /\ frame' = [frame EXCEPT !.current_time = frame.time,
                                      !.last_short_analysis_time = frame.time]
       ELSE FullCheck(frame.time)
    /\ UNCHANGED <<scheduleContext, addArg, data_counter, accepted, lastRecord>>

\* await self.run_short_term_analysis() returns (the pass catches its own
\* exceptions), then the second test
ShortPassReturns ==
    /\ ipc = "short"
    /\ FullCheck(frame.current_time)
    /\ UNCHANGED <<scheduleContext, addArg, data_counter, accepted, forwarded, lastRecord>>

\* await self.run_full_prediction_analysis(...) returns; process_data ends
FullPassReturns ==
    /\ ipc = "full"
    /\ ipc' = "idle"
    /\ frame' = [frame EXCEPT !.current_time = 0]
    /\ UNCHANGED <<scheduleContext, addArg, data_counter, accepted, forwarded, lastRecord>>

ScheduleNext ==
    \/ ClockTick
    \/ ReceiveRecord
    \/ AddCall
    \/ BroadcastAndSchedule
    \/ ShortPassReturns
    \/ FullPassReturns
    \/ TimerFire
    \/ \E t \in {"add", "timer"} : FlushLocked(t)
    \/ \E t \in {"add", "timer"}, ok \in BOOLEAN : FlushWrite(t, ok)

\* EmulatorClient.__init__ reads time.time() into both trigger times
ScheduleInit ==
    /\ InitCommon
    /\ buffer = <<>>
    /\ ClientIdle
    /\ log = <<>>
    /\ pending = EmptyDir
    /\ model_available = FALSE
    /\ last_analysis_result = EmptyDict
    /\ analysis_results = <<>>
    /\ active_connections = <<>>
    /\ accepted_sockets = 0
    /\ analysis_history = <<>>
    /\ analyze_pc = [t \in AnalyzeCallers |-> "idle"]
    /\ events = <<>>
    /\ call = NoCall
    /\ ret = NoRet
    /\ frame = [pc |-> "schedule", time |-> 0, current_time |-> 0,
                last_short_analysis_time |-> 0, last_full_analysis_time |-> 0]

ScheduleSpec == ScheduleInit /\ [][ScheduleNext]_vars

PassRunning == ipc \in {"short", "full"}

\* C37: a pass starts only in process_data of an accepted sample, after its
\* broadcast; there the fast pass starts exactly when 10 s or more have passed
\* since the fast-pass trigger time, and the full pass, after the fast pass
\* has returned, exactly when 120 s or more had passed since the full-pass
\* trigger time at the moment the time was read; each start sets its trigger
\* time to that moment, and no record is taken while a pass runs.
C37_PassesStartBySampleAndElapsedTime ==
    [][ /\ (ipc' # ipc /\ ipc' \in {"short", "full"}) =>
              /\ ipc \in {"bcast", "short"}
              /\ Accepts(lastRecord)
              /\ lastRecord' = lastRecord
        /\ ipc = "bcast" =>
              \/ ipc' = "bcast" /\ frame'.last_short_analysis_time = frame.last_short_analysis_time
                                /\ frame'.last_full_analysis_time = frame.last_full_analysis_time
              \/ /\ (ipc' = "short") <=> (frame.time - frame.last_short_analysis_time >= 10)
                 /\ ipc' = "short" => /\ frame'.last_short_analysis_time = frame.time
                                      /\ frame'.current_time = frame.time
                                      /\ frame'.last_full_analysis_time = frame.last_full_analysis_time
                 /\ ipc' # "short" =>
                       /\ (ipc' = "full") <=> (frame.time - frame.last_full_analysis_time >= 120)
                       /\ ipc' = "full" => frame'.last_full_analysis_time = frame.time
                       /\ ipc' # "full" => /\ ipc' = "idle"
                                           /\ frame'.last_full_analysis_time = frame.last_full_analysis_time
        /\ (ipc = "short" /\ ipc' # "short") =>
              /\ (ipc' = "full") <=> (frame.current_time - frame.last_full_analysis_time >= 120)
              /\ ipc' = "full" => frame'.last_full_analysis_time = frame.current_time
              /\ ipc' # "full" => ipc' = "idle"
        /\ (ipc = "full" /\ ipc' # "full") => ipc' = "idle"
        /\ ipc # "bcast" => frame'.last_short_analysis_time = frame.last_short_analysis_time
        /\ ipc \notin {"bcast", "short"} => frame'.last_full_analysis_time = frame.last_full_analysis_time
        /\ PassRunning => data_counter' = data_counter /\ lastRecord' = lastRecord
      ]_vars

\* both passes were started for the sample processed exactly 120 s after
\* construction, the full pass after the fast one
C37_Witness ==
    /\ ipc = "full"
    /\ frame.current_time = 120
    /\ frame.last_short_analysis_time = 120
    /\ frame.last_full_analysis_time = 120
    /\ forwarded >= 2

\* ------------------------------------------------------------------------
\* The signal-loss ratio of a window read from the sample log
\* ------------------------------------------------------------------------
\* pandas reads a NULL of a REAL column as nan
NpFloat(x) == IF x.cls = "null" THEN NaN ELSE x
FhrColumn(rows) == [i \in 1..Len(rows) |-> NpFloat(rows[i].bpm_value)]

\* interp1d, kind='linear': slope * (x_new - x_lo) + y_lo between two
\* neighbouring samples, rem / d being x_new - x_lo; nan when either is nan
Lerp(y_lo, y_hi, rem, d) ==
    IF y_lo.cls # "fin" \/ y_hi.cls # "fin" THEN NaN
    ELSE Fin(y_lo.num * y_hi.den * (d - rem) + y_hi.num * y_lo.den * rem,
             y_lo.den * y_hi.den * d)

\* CTGFeatureExtractor.interpolate_signal: len * INTERPOLATION_FACTOR points
\* spread evenly from the first sample to the last; a point on a sample other
\* than the first is computed from the interval that ends there (searchsorted)
interpolate_signal(signal_1hz) ==
    LET n == Len(signal_1hz)
        d == n * INTERPOLATION_FACTOR - 1
    IN  IF n < 2 THEN signal_1hz
        ELSE [j \in 1..(n * INTERPOLATION_FACTOR) |->
                LET p == (j - 1) * (n - 1)
                    k == p \div d
                    onSample == p % d = 0 /\ k >= 1
                    lo == IF onSample THEN k - 1 ELSE k
                    rem == IF onSample THEN d ELSE p % d
                IN  Lerp(signal_1hz[lo + 1], signal_1hz[lo + 2], rem, d)]

\* (fhr == 0) | (fhr < 50) | (fhr > 210), false for nan
signal_loss_mask(x) == (x.cls = "fin" /\ x.num = 0) \/ FloatLt(x, 50) \/ FloatGt(x, 210)
\* np.sum(signal_loss_mask)
SignalLost(fhr) == Cardinality({i \in 1..Len(fhr) : signal_loss_mask(fhr[i])})
\* _calculate_fwbs: the penalty for signal_quality = 1 - lost / len, in points
SignalQualityPenalty(lost, len) ==
    IF 10 * (len - lost) < 5 * len THEN 10
    ELSE IF 10 * (len - lost) < 7 * len THEN 5 ELSE 0
\* _detect_clinical_patterns: signal_quality < 0.6
PoorSignalQuality(lost, len) == 10 * (len - lost) < 6 * len

\* the records process_data hands on, and what the sample log holds of them
AcceptedRecords == {data \in RawRecords : Accepts(data)}
StoredRow(data_point, data) ==
    SqlRows(<<Row(data_point, safe_float_convert(data.bpm),
                  safe_float_convert(data.uterus))>>)[1]
\* sample logs of the least size a fast pass analyses: the well-formed record
\* throughout, and any accepted record at one place
QualityLogs ==
    {[i \in 1..MIN_RECORDS_FOR_SHORT_ANALYSIS |->
        StoredRow(i, IF i = at THEN data ELSE GoodRecord)] :
     at \in 1..MIN_RECORDS_FOR_SHORT_ANALYSIS, data \in AcceptedRecords}

\* analyze() up to the signal-loss ratio of the long-window features: the fhr
\* column of the rows read, upsampled, the last LONG_WINDOW_SAMPLES of it
CallSignalQuality ==
    /\ call.fn = "signal_quality" /\ ~ret.done
    /\ LET fhr_4hz == interpolate_signal(FhrColumn(get_data_from_db(600)))
           fhr_long == SubSeq(fhr_4hz, Len(fhr_4hz) - Min(Len(fhr_4hz), LONG_WINDOW_SAMPLES) + 1,
                              Len(fhr_4hz))
           lost == SignalLost(fhr_long)
       IN  ret' = [done |-> TRUE,
                   val |-> [window |-> Range(fhr_long),
                            len |-> Len(fhr_long),
                            lost |-> lost,
                            penalty |-> SignalQualityPenalty(lost, Len(fhr_long)),
                            poor_signal_quality |-> PoorSignalQuality(lost, Len(fhr_long))]]
    /\ UNCHANGED <<call, frame, frameContext>>

QualityNext == CallSignalQuality

QualityInit ==
    /\ InitCommon
    /\ buffer = <<>>
    /\ ClientIdle
    /\ pending = EmptyDir
    /\ model_available = FALSE
    /\ last_analysis_result = EmptyDict
    /\ analysis_results = <<>>
    /\ active_connections = <<>>
    /\ accepted_sockets = 0
    /\ analysis_history = <<>>
    /\ analyze_pc = [t \in AnalyzeCallers |-> "idle"]
    /\ events = <<>>
    /\ ret = NoRet
    /\ frame = NoFrame
    /\ call = [fn |-> "signal_quality", args |-> <<>>]
    /\ log \in QualityLogs

QualitySpec == QualityInit /\ [][QualityNext]_vars

\* C38: for a sample log the ingestion client wrote, every value of the
\* upsampled window is within [50,201], no value counts as signal loss, and
\* neither the signal-quality penalty nor the poor-signal finding occurs.
C38_WindowInRangeNoSignalLoss ==
    Returned("signal_quality") =>
        /\ \A x \in ret.val.window : InRange(x, 50, 201)
        /\ ret.val.lost = 0
        /\ ret.val.penalty = 0
        /\ ~ret.val.poor_signal_quality

\* ------------------------------------------------------------------------
\* The samples of a batch whose write fails
\* ------------------------------------------------------------------------
\* the rows a thread has taken out of the buffer and not yet committed
InFlight == Range(to_write["add"]) \cup Range(to_write["timer"])
Kept(rows) == {r.data_point : r \in rows}

\* C39: every sample passed to add() is in the in-memory batch or in the
\* sample log (or on its way from the one to the other), also after a failed
\* write, and the timer flusher is never ended by a failed write.
C39_NoAcceptedSampleLost ==
    /\ accepted \subseteq Kept(Range(buffer) \cup Range(log) \cup InFlight)
    /\ tpc["timer"] # "dead"

====
